---- MODULE Spec2Model ----
(***************************************************************************)
(* A model of the entity-reconciliation and review-consensus pipeline of   *)
(* music_scout: AlbumMatcher (album_matcher.py) and ReviewAggregator       *)
(* (review_aggregator.py) over the relational store they share, and        *)
(* ScoreParser (score_parser.py), which reads a score from a review text.  *)
(*                                                                         *)
(* Text is a sequence of one-character strings.  Scores and source weights *)
(* are counted in tenths (8.5 is 85).  A quotient is an exact fraction     *)
(* <<numerator, denominator>> in lowest terms; a standard deviation is     *)
(* kept as the fraction it is the square root of.  Floating-point rounding *)
(* of the last bit is not modelled.                                        *)
(***************************************************************************)
EXTENDS Integers, Sequences, FiniteSets, TLC

VARIABLES artists, albums, items, sources, aggregates, last, made

vars == <<artists, albums, items, sources, aggregates, last, made>>

\* Optional[T]: None is the empty tuple and a value x is <<x>>.  An optional
\* string is the text itself, None and "" both being the empty text (the
\* code only ever tests such a value for truth).
None == <<>>

Some(x) == <<x>>

IsNone(o) == Len(o) = 0

Val(o) == o[1]

\* ------------------------------------------------------------------ text

UpperLetters == <<"A","B","C","D","E","F","G","H","I","J","K","L","M",
                  "N","O","P","Q","R","S","T","U","V","W","X","Y","Z">>

LowerLetters == <<"a","b","c","d","e","f","g","h","i","j","k","l","m",
                  "n","o","p","q","r","s","t","u","v","w","x","y","z">>

\* str.lower() on one character
LowerChar(c) ==
    IF \E i \in 1..26 : UpperLetters[i] = c
    THEN LowerLetters[CHOOSE i \in 1..26 : UpperLetters[i] = c]
    ELSE c

\* the character class [\'\".,!?:;()\[\]{}] of normalize_string
PunctChars == {"'", "\"", ".", ",", "!", "?", ":", ";", "(", ")", "[", "]", "{", "}"}

\* the special dashes replaced by "-": en dash, em dash, horizontal bar,
\* hyphen, non-breaking hyphen (named, since the module text is ASCII)
DashChars == {"<endash>", "<emdash>", "<hbar>", "<hyphen>", "<nbhyphen>"}

\* the regular expression class \s
SpaceChars == {" ", "\t", "\n"}

RECURSIVE MapChars(_, _)
MapChars(s, i) ==
    IF i > Len(s) THEN <<>>
    ELSE <<LowerChar(s[i])>> \o MapChars(s, i + 1)

\* text.lower()
Lower(s) == MapChars(s, 1)

RECURSIVE DropPunct(_)
\* re.sub(r'[\'\".,!?:;()\[\]{}]', '', s)
DropPunct(s) ==
    IF Len(s) = 0 THEN <<>>
    ELSE IF Head(s) \in PunctChars THEN DropPunct(Tail(s))
    ELSE <<Head(s)>> \o DropPunct(Tail(s))

RECURSIVE UnifyDashes(_)
\* re.sub(r'[<dashes>]', '-', s)
UnifyDashes(s) ==
    IF Len(s) = 0 THEN <<>>
    ELSE <<IF Head(s) \in DashChars THEN "-" ELSE Head(s)>> \o UnifyDashes(Tail(s))

RECURSIVE SkipSpaces(_, _)
\* the first position at or after i that holds no white space
SkipSpaces(s, i) ==
    IF i <= Len(s) /\ s[i] \in SpaceChars THEN SkipSpaces(s, i + 1) ELSE i

\* re.sub(r'^the\s+', '', s): one leading "the" followed by white space
DropLeadingThe(s) ==
    IF /\ Len(s) >= 4
       /\ SubSeq(s, 1, 3) = <<"t", "h", "e">>
       /\ s[4] \in SpaceChars
    THEN SubSeq(s, SkipSpaces(s, 4), Len(s))
    ELSE s

\* positions p >= from holding `open` that have a `close` after them with no
\* newline in between ('.' does not match a newline)
SpanOpens(s, from, open, close) ==
    {p \in from..Len(s) :
        /\ s[p] = open
        /\ \E q \in (p + 1)..Len(s) :
              /\ s[q] = close
              /\ \A r \in (p + 1)..(q - 1) : s[r] # "\n"}

RECURSIVE BackSpaces(_, _, _)
\* the leftmost i >= from such that s[i..p-1] is white space only
BackSpaces(s, from, p) ==
    IF p > from /\ s[p - 1] \in SpaceChars THEN BackSpaces(s, from, p - 1) ELSE p

Min(S) == CHOOSE x \in S : \A y \in S : x <= y

Max(S) == CHOOSE x \in S : \A y \in S : x >= y

RECURSIVE DropSpans(_, _, _, _)
\* re.sub(r'\s*\(.*?\)\s*', ' ', s) and its bracket twin, scanning from
\* position `from`: each leftmost non-greedy span, with the white space
\* around it, becomes one blank
DropSpans(s, from, open, close) ==
    LET opens == SpanOpens(s, from, open, close) IN
    IF opens = {} THEN SubSeq(s, from, Len(s))
    ELSE LET p == Min(opens)
             q == Min({r \in (p + 1)..Len(s) : s[r] = close})
             b == BackSpaces(s, from, p)
             e == SkipSpaces(s, q + 1)
         IN SubSeq(s, from, b - 1) \o <<" ">> \o DropSpans(s, e, open, close)

RECURSIVE CollapseSpaces(_)
\* re.sub(r'\s+', ' ', s)
CollapseSpaces(s) ==
    IF Len(s) = 0 THEN <<>>
    ELSE IF Head(s) \in SpaceChars
         THEN <<" ">> \o CollapseSpaces(SubSeq(s, SkipSpaces(s, 1), Len(s)))
         ELSE <<Head(s)>> \o CollapseSpaces(Tail(s))

\* str.strip()
Strip(s) ==
    LET keep == {i \in 1..Len(s) : s[i] \notin SpaceChars} IN
    IF keep = {} THEN <<>> ELSE SubSeq(s, Min(keep), Max(keep))

\* truthiness of an optional string: None and "" are both false
Truthy(s) == Len(s) > 0

\* AlbumMatcher.normalize_string
normalize_string(text) ==
    IF ~Truthy(text) THEN <<>>
    ELSE LET n1 == Lower(text)
             n2 == DropPunct(n1)
             n3 == UnifyDashes(n2)
             n4 == DropLeadingThe(n3)
             n5 == DropSpans(n4, 1, "(", ")")
             n6 == DropSpans(n5, 1, "[", "]")
         IN Strip(CollapseSpaces(n6))

\* ------------------------------------------------------- sequence matcher

RECURSIVE CommonPrefix(_, _, _, _)
\* the length of the longest common run of a from i and b from j
CommonPrefix(a, b, i, j) ==
    IF i <= Len(a) /\ j <= Len(b) /\ a[i] = b[j]
    THEN 1 + CommonPrefix(a, b, i + 1, j + 1)
    ELSE 0

\* difflib find_longest_match without junk: the longest block, of those the
\* one starting earliest in a, of those the one starting earliest in b
LongestMatch(a, b) ==
    LET k == Max({CommonPrefix(a, b, i, j) : i \in 1..Len(a), j \in 1..Len(b)})
        i == Min({x \in 1..Len(a) : \E y \in 1..Len(b) : CommonPrefix(a, b, x, y) = k})
        j == Min({y \in 1..Len(b) : CommonPrefix(a, b, i, y) = k})
    IN <<i, j, k>>

RECURSIVE MatchingChars(_, _)

\* the block m = <<i, j, k>> and the matching blocks to its left and right
MatchingAround(a, b, m) ==
    IF m[3] = 0 THEN 0
    ELSE m[3]
         + MatchingChars(SubSeq(a, 1, m[1] - 1), SubSeq(b, 1, m[2] - 1))
         + MatchingChars(SubSeq(a, m[1] + m[3], Len(a)),
                         SubSeq(b, m[2] + m[3], Len(b)))

\* difflib get_matching_blocks: the total size of the matching blocks
MatchingChars(a, b) ==
    IF Len(a) = 0 \/ Len(b) = 0 THEN 0
    ELSE MatchingAround(a, b, LongestMatch(a, b))

\* AlbumMatcher.similarity_score, as the fraction <<num, den>>
similarity_score(str1, str2) ==
    IF Len(str1) = 0 \/ Len(str2) = 0 THEN <<0, 1>>
    ELSE IF str1 = str2 THEN <<1, 1>>
    ELSE <<2 * MatchingChars(str1, str2), Len(str1) + Len(str2)>>

\* ------------------------------------------------------------ text pools
\* the artist mentions and album titles the inputs are drawn from

Name_abc == <<"a", "b", "c">>

Name_abcd == <<"a", "b", "c", "d">>

Name_The_abc == <<"T", "h", "e", " ", "a", "b", "c">>

Name_uvw == <<"u", "v", "w">>

Title_xyz == <<"x", "y", "z">>

Title_xyzw == <<"x", "y", "z", "w">>

Name_bcd == <<"b", "c", "d">>

Name_abcde == <<"a", "b", "c", "d", "e">>

\* a name of punctuation only
Name_bang == <<"!">>

Title_xyzwv == <<"x", "y", "z", "w", "v">>

TextPool ==
    {Name_abc, Name_abcd, Name_The_abc, Name_uvw, Title_xyz, Title_xyzw,
     Name_bcd, Name_abcde, Name_bang, Title_xyzwv}

\* normalize_string and similarity_score on the pooled texts, computed once
NormTable == [t \in TextPool |-> normalize_string(t)]

NormPool == {NormTable[t] : t \in TextPool}

SimTable == [p \in NormPool \X NormPool |-> similarity_score(p[1], p[2])]

\* self.normalize_string(text)
Norm(text) == IF text \in TextPool THEN NormTable[text] ELSE normalize_string(text)

\* self.similarity_score(str1, str2)
Sim(str1, str2) ==
    IF str1 \in NormPool /\ str2 \in NormPool THEN SimTable[<<str1, str2>>]
    ELSE similarity_score(str1, str2)

\* --------------------------------------------------------------- numbers

RECURSIVE GCD(_, _)
GCD(a, b) == IF b = 0 THEN a ELSE GCD(b, a % b)

Abs(x) == IF x < 0 THEN -x ELSE x

\* the fraction n/d in lowest terms with a positive denominator
Frac(n, d) ==
    LET g == GCD(Abs(n), Abs(d))
        sgn == IF d < 0 THEN -1 ELSE 1
    IN <<sgn * (n \div g), sgn * (d \div g)>>

RECURSIVE FracLe(_, _, _, _)
\* a/b <= c/d for a, c >= 0 and b, d > 0, by Euclid's steps (no product is
\* formed, so nothing leaves the machine integers)
FracLe(a, b, c, d) ==
    LET q1 == a \div b
        q2 == c \div d
        r1 == a % b
        r2 == c % d
    IN IF q1 # q2 THEN q1 < q2
       ELSE IF r1 = 0 THEN TRUE
       ELSE IF r2 = 0 THEN FALSE
       ELSE FracLe(d, r2, b, r1)

RECURSIVE SumSeq(_)
SumSeq(s) == IF Len(s) = 0 THEN 0 ELSE Head(s) + SumSeq(Tail(s))

RECURSIVE SumSquares(_)
SumSquares(s) == IF Len(s) = 0 THEN 0 ELSE Head(s) * Head(s) + SumSquares(Tail(s))

RECURSIVE Insert(_, _)
Insert(x, s) ==
    IF Len(s) = 0 THEN <<x>>
    ELSE IF x <= Head(s) THEN <<x>> \o s
    ELSE <<Head(s)>> \o Insert(x, Tail(s))

RECURSIVE Sorted(_)
\* sorted(s)
Sorted(s) == IF Len(s) = 0 THEN <<>> ELSE Insert(Head(s), Sorted(Tail(s)))

RECURSIVE SetToSeq(_)
\* list(set(...)) of small integers: ascending
SetToSeq(S) ==
    IF S = {} THEN <<>>
    ELSE LET m == Min(S) IN <<m>> \o SetToSeq(S \ {m})

SeqToSet(s) == {s[i] : i \in 1..Len(s)}

\* ------------------------------------------------------------ statistics
\* scores are in tenths; so are the mean, the median and the weighted mean

\* statistics.mean
Mean(scores) == Frac(SumSeq(scores), Len(scores))

\* statistics.median
Median(scores) ==
    LET s == Sorted(scores)
        n == Len(s)
    IN IF n % 2 = 1 THEN Frac(s[(n + 1) \div 2], 1)
       ELSE Frac(s[n \div 2] + s[n \div 2 + 1], 2)

\* the sample variance statistics.stdev is the square root of, in tenths^2
Variance(scores) ==
    LET n == Len(scores)
        S == SumSeq(scores)
        Q == SumSquares(scores)
    IN Frac(n * Q - S * S, n * (n - 1))

\* statistics.stdev(scores) if len(scores) > 1 else 0.0, as its square
StdevSquared(scores) ==
    IF Len(scores) > 1 THEN Variance(scores) ELSE <<0, 1>>

\* min(score_stddev / 10.0, 1.0), as its square; a stddev of x tenths is
\* x/10 score points, so the quotient is x/100
ControversySquared(sd2) ==
    IF FracLe(10000, 1, sd2[1], sd2[2]) THEN <<1, 1>>
    ELSE Frac(sd2[1], 10000 * sd2[2])

RECURSIVE LargestBelow(_, _, _, _)
\* the largest k in lo..hi with 2000 * sqrt(a/b) <= 2001 - 2k, given that
\* lo has the property
LargestBelow(a, b, lo, hi) ==
    IF lo = hi THEN lo
    ELSE LET mid == (lo + hi + 1) \div 2 IN
         IF FracLe(a, b, (2001 - 2 * mid) * (2001 - 2 * mid), 4000000)
         THEN LargestBelow(a, b, mid, hi)
         ELSE LargestBelow(a, b, lo, mid - 1)

\* faulty variant of CalculateConsensusStrength: the population standard
\* deviation in place of the sample one
ConsensusOfPopulation(scores) ==
    IF Len(scores) <= 1 THEN 1000
    ELSE LET n == Len(scores)
             S == SumSeq(scores)
             Q == SumSquares(scores)
             a == n * Q - S * S
             b == S * S
         IN IF S = 0 THEN 1000
            ELSE IF a >= b THEN 0
            ELSE LargestBelow(a, b, 0, 1000)

\* ReviewAggregator._calculate_consensus_strength, in thousandths
CalculateConsensusStrength(scores) ==
    IF Len(scores) <= 1 THEN 1000
    ELSE LET n == Len(scores)
             S == SumSeq(scores)
             Q == SumSquares(scores)
             \* cv^2 = stdev^2 / mean^2 = a / b
             a == n * (n * Q - S * S)
             b == (n - 1) * S * S
         IN IF S = 0 THEN 1000
            ELSE IF a >= b THEN 0                     \* max(0.0, 1.0 - cv)
            ELSE LargestBelow(a, b, 0, 1000)           \* round(consensus, 3)

Buckets == {"0-3", "3-5", "5-7", "7-8", "8-9", "9-10"}

\* faulty variant of BucketOf: a score on a limit stays in the lower range
BucketOfClosed(score) ==
    IF score <= 30 THEN "0-3"
    ELSE IF score <= 50 THEN "3-5"
    ELSE IF score <= 70 THEN "5-7"
    ELSE IF score <= 80 THEN "7-8"
    ELSE IF score <= 90 THEN "8-9"
    ELSE "9-10"

\* the if/elif chain of _calculate_score_distribution for one score
BucketOf(score) ==
    IF score < 30 THEN "0-3"
    ELSE IF score < 50 THEN "3-5"
    ELSE IF score < 70 THEN "5-7"
    ELSE IF score < 80 THEN "7-8"
    ELSE IF score < 90 THEN "8-9"
    ELSE "9-10"

\* ReviewAggregator._calculate_score_distribution
CalculateScoreDistribution(scores) ==
    [b \in Buckets |-> Cardinality({i \in 1..Len(scores) : BucketOf(scores[i]) = b})]

\* ------------------------------------------------------------- the store
\* A table is the sequence of its rows in rowid order.  `st` is the whole
\* store: [artists, albums, items, sources, aggregates].  The bookkeeping
\* columns created_at and updated_at are left out of every row.

\* INTEGER PRIMARY KEY of SQLite (core/config.py: sqlite): largest rowid + 1
NextId(rows) ==
    IF Len(rows) = 0 THEN 1 ELSE Max({rows[i].id : i \in 1..Len(rows)}) + 1

\* session.exec(statement).first() over the rows with the given positions
FirstAt(rows, idx) == IF idx = {} THEN None ELSE Some(rows[Min(idx)])

\* session.get(Model, id)
GetById(rows, id) == FirstAt(rows, {i \in 1..Len(rows) : rows[i].id = id})

FracLt(x, y) == x[1] * y[2] < y[1] * x[2]

FracGe(x, y) == x[1] * y[2] >= y[1] * x[2]

FracAdd(x, y) == Frac(x[1] * y[2] + y[1] * x[2], x[2] * y[2])

\* faulty variant of strong_match_threshold: names must be more alike to be
\* taken for one artist
StricterThreshold == <<9, 10>>

\* self.strong_match_threshold = 0.85
strong_match_threshold == <<85, 100>>

\* the year bonus of match_album: score += 0.1
year_bonus == <<1, 10>>

\* ---------------------------------------------------------- AlbumMatcher
\* Each operation returns [st |-> the store after the call, ret |-> its
\* result]; a function is split at the points where it has computed a value
\* that the rest of it uses.

RECURSIVE BestArtistLastWins(_, _, _, _, _)
\* faulty variant of BestArtist: a later artist with an equal score replaces
\* the best match so far
BestArtistLastWins(all_artists, i, normalized_name, best_match, best_score) ==
    IF i > Len(all_artists) THEN best_match
    ELSE IF /\ FracGe(Sim(normalized_name, all_artists[i].normalized_name), best_score)
            /\ FracGe(Sim(normalized_name, all_artists[i].normalized_name),
                      strong_match_threshold)
         THEN BestArtistLastWins(all_artists, i + 1, normalized_name, Some(all_artists[i]),
                                 Sim(normalized_name, all_artists[i].normalized_name))
         ELSE BestArtistLastWins(all_artists, i + 1, normalized_name, best_match, best_score)

RECURSIVE BestArtist(_, _, _, _, _)
\* lines 93-100: the fuzzy loop of match_artist over all_artists from i
BestArtist(all_artists, i, normalized_name, best_match, best_score) ==
    IF i > Len(all_artists) THEN best_match
    ELSE IF /\ FracLt(best_score, Sim(normalized_name, all_artists[i].normalized_name))
            /\ FracGe(Sim(normalized_name, all_artists[i].normalized_name),
                      strong_match_threshold)
         THEN BestArtist(all_artists, i + 1, normalized_name, Some(all_artists[i]),
                         Sim(normalized_name, all_artists[i].normalized_name))
         ELSE BestArtist(all_artists, i + 1, normalized_name, best_match, best_score)

\* faulty variant of ArtistDecision: a missing Artist is created whatever
\* create_if_missing is
ArtistDecisionAlwaysCreates(st, create_if_missing, existing_artist, best_match, new_artist) ==
    IF ~IsNone(existing_artist) THEN [st |-> st, ret |-> existing_artist]
    ELSE IF ~IsNone(best_match) THEN [st |-> st, ret |-> best_match]
    ELSE [st |-> [st EXCEPT !.artists = Append(@, new_artist)],
          ret |-> Some(new_artist)]

\* lines 83-117: the exact hit, else the fuzzy hit, else a new Artist, else None
ArtistDecision(st, create_if_missing, existing_artist, best_match, new_artist) ==
    IF ~IsNone(existing_artist) THEN [st |-> st, ret |-> existing_artist]
    ELSE IF ~IsNone(best_match) THEN [st |-> st, ret |-> best_match]
    ELSE IF create_if_missing
         THEN [st |-> [st EXCEPT !.artists = Append(@, new_artist)],
               ret |-> Some(new_artist)]
    ELSE [st |-> st, ret |-> None]

\* lines 79-117 for the normalized name
MatchArtistNormalized(st, artist_name, normalized_name, create_if_missing) ==
    ArtistDecision(st, create_if_missing,
        FirstAt(st.artists, {i \in 1..Len(st.artists) :
                                st.artists[i].normalized_name = normalized_name}),
        BestArtist(st.artists, 1, normalized_name, None, <<0, 1>>),
        [id |-> NextId(st.artists),
         name |-> artist_name,
         normalized_name |-> normalized_name])

\* AlbumMatcher.match_artist
match_artist(st, artist_name, create_if_missing) ==
    IF ~Truthy(artist_name) THEN [st |-> st, ret |-> None]
    ELSE MatchArtistNormalized(st, artist_name, Norm(artist_name), create_if_missing)

\* faulty variant of AlbumScore: the bonus is added whenever a release year
\* is supplied
AlbumScoreAnyYear(base, album, release_year) ==
    IF ~IsNone(release_year) THEN FracAdd(base, year_bonus) ELSE base

\* lines 170-174: the title similarity plus the bonus for an equal year
AlbumScore(base, album, release_year) ==
    IF /\ ~IsNone(release_year)
       /\ ~IsNone(album.release_year)
       /\ album.release_year = release_year
    THEN FracAdd(base, year_bonus)
    ELSE base

RECURSIVE BestAlbum(_, _, _, _, _, _)

\* lines 176-178 for one candidate with its score
BestAlbumStep(artist_albums, i, normalized_title, release_year, best_match, best_score, score) ==
    IF FracLt(best_score, score) /\ FracGe(score, strong_match_threshold)
    THEN BestAlbum(artist_albums, i + 1, normalized_title, release_year,
                   Some(artist_albums[i]), score)
    ELSE BestAlbum(artist_albums, i + 1, normalized_title, release_year,
                   best_match, best_score)

\* lines 166-178: the fuzzy loop of match_album over artist_albums from i
BestAlbum(artist_albums, i, normalized_title, release_year, best_match, best_score) ==
    IF i > Len(artist_albums) THEN best_match
    ELSE BestAlbumStep(artist_albums, i, normalized_title, release_year,
                       best_match, best_score,
                       AlbumScore(Sim(normalized_title, artist_albums[i].normalized_title),
                                  artist_albums[i], release_year))

\* lines 156-200: the exact hit, else the fuzzy hit, else a new Album, else None
AlbumDecision(st, create_if_missing, existing_album, best_match, new_album) ==
    IF ~IsNone(existing_album) THEN [st |-> st, ret |-> existing_album]
    ELSE IF ~IsNone(best_match) THEN [st |-> st, ret |-> best_match]
    ELSE IF create_if_missing
         THEN [st |-> [st EXCEPT !.albums = Append(@, new_album)],
               ret |-> Some(new_album)]
    ELSE [st |-> st, ret |-> None]

\* lines 148-200 among the albums of the resolved artist
MatchAlbumAmong(st, artist, artist_albums, album_title, normalized_title, create_if_missing, release_year) ==
    AlbumDecision(st, create_if_missing,
        FirstAt(artist_albums, {i \in 1..Len(artist_albums) :
                   artist_albums[i].normalized_title = normalized_title}),
        BestAlbum(artist_albums, 1, normalized_title, release_year, None, <<0, 1>>),
        [id |-> NextId(st.albums),
         title |-> album_title,
         normalized_title |-> normalized_title,
         artist_id |-> artist.id,
         release_date |-> None,
         release_year |-> release_year])

\* faulty variant of MatchAlbumOfArtist: the albums of every artist are
\* candidates
MatchAlbumOfAnyArtist(m, album_title, create_if_missing, release_year) ==
    IF IsNone(m.ret) THEN [st |-> m.st, ret |-> None]
    ELSE MatchAlbumAmong(m.st, Val(m.ret), m.st.albums,
             album_title, Norm(album_title), create_if_missing, release_year)

\* lines 143-200 with m the result of match_artist
MatchAlbumOfArtist(m, album_title, create_if_missing, release_year) ==
    IF IsNone(m.ret) THEN [st |-> m.st, ret |-> None]
    ELSE MatchAlbumAmong(m.st, Val(m.ret),
             SelectSeq(m.st.albums, LAMBDA a : a.artist_id = Val(m.ret).id),
             album_title, Norm(album_title), create_if_missing, release_year)

\* AlbumMatcher.match_album
match_album(st, album_title, artist_name, create_if_missing, release_year) ==
    IF ~Truthy(album_title) \/ ~Truthy(artist_name) THEN [st |-> st, ret |-> None]
    ELSE MatchAlbumOfArtist(match_artist(st, artist_name, create_if_missing),
                            album_title, create_if_missing, release_year)

\* faulty variant of match_music_item_to_album: the publication year is not
\* passed on
MatchItemWithoutYear(st, music_item, create_if_missing) ==
    IF ~Truthy(music_item.album) \/ Len(music_item.artists) = 0
    THEN [st |-> st, ret |-> None]
    ELSE IF ~Truthy(music_item.artists[1]) THEN [st |-> st, ret |-> None]
    ELSE match_album(st, music_item.album, music_item.artists[1], create_if_missing, None)

\* AlbumMatcher.match_music_item_to_album
match_music_item_to_album(st, music_item, create_if_missing) ==
    IF ~Truthy(music_item.album) \/ Len(music_item.artists) = 0
    THEN [st |-> st, ret |-> None]
    ELSE IF ~Truthy(music_item.artists[1]) THEN [st |-> st, ret |-> None]
    ELSE match_album(st, music_item.album, music_item.artists[1], create_if_missing,
                     Some(music_item.published_date.year))

\* ------------------------------------------------------- ReviewAggregator

\* datetime order
DtLe(a, b) == a.day < b.day \/ (a.day = b.day /\ a.tick <= b.tick)

\* min(review_dates) / max(review_dates)
MinDate(ds) == ds[CHOOSE i \in 1..Len(ds) : \A j \in 1..Len(ds) : DtLe(ds[i], ds[j])]

MaxDate(ds) == ds[CHOOSE i \in 1..Len(ds) : \A j \in 1..Len(ds) : DtLe(ds[j], ds[i])]

\* select(MusicItem).where(MusicItem.content_type == ContentType.REVIEW)
AllReviews(st) == SelectSeq(st.items, LAMBDA r : r.content_type = "review")

\* lines 56-57: matched_album and matched_album.id == album_id
IsAlbum(matched_album, album_id) ==
    ~IsNone(matched_album) /\ Val(matched_album).id = album_id

\* lines 53-58: the reviews that match_music_item_to_album(review,
\* create_if_missing=False) resolves to album_id, in storage order
MatchedReviews(st, album_id) ==
    SelectSeq(AllReviews(st),
              LAMBDA r : IsAlbum(match_music_item_to_album(st, r, FALSE).ret, album_id))

\* [r for r in reviews if r.review_score is not None]
ScoredReviews(reviews) == SelectSeq(reviews, LAMBDA r : ~IsNone(r.review_score))

\* [r.review_score for r in scored_reviews]
ScoresOf(scored_reviews) ==
    [i \in 1..Len(scored_reviews) |-> Val(scored_reviews[i].review_score)]

\* list(set(r.source_id for r in reviews))
SourceIdsOf(reviews) == SetToSeq({reviews[i].source_id : i \in 1..Len(reviews)})

\* faulty variant of WeightOf: a missing row weighs 2.0
WeightOfMissingTwo(source) == IF ~IsNone(source) THEN Val(source).weight ELSE 20

\* the weight of one source in _get_source_weights: a missing row weighs 1.0
WeightOf(source) == IF ~IsNone(source) THEN Val(source).weight ELSE 10

\* ReviewAggregator._get_source_weights
GetSourceWeights(st, source_ids) ==
    [sid \in SeqToSet(source_ids) |-> WeightOf(GetById(st.sources, sid))]

RECURSIVE WeightedSum(_, _)
\* sum(weighted_scores): review.review_score * weight over scored_reviews
WeightedSum(scored_reviews, source_weights) ==
    IF Len(scored_reviews) = 0 THEN 0
    ELSE Val(Head(scored_reviews).review_score) * source_weights[Head(scored_reviews).source_id]
         + WeightedSum(Tail(scored_reviews), source_weights)

RECURSIVE WeightSum(_, _)
\* sum(source_weights.get(r.source_id, 1.0) for r in scored_reviews)
WeightSum(scored_reviews, source_weights) ==
    IF Len(scored_reviews) = 0 THEN 0
    ELSE source_weights[Head(scored_reviews).source_id]
         + WeightSum(Tail(scored_reviews), source_weights)

\* faulty variant of WeightedAverage: the weighted sum over the number of
\* scored reviews
WeightedAverageByCount(scored_reviews, source_weights) ==
    Frac(WeightedSum(scored_reviews, source_weights), 10 * Len(scored_reviews))

\* lines 85-87: sum(weighted_scores) / sum(weights)
WeightedAverage(scored_reviews, source_weights) ==
    Frac(WeightedSum(scored_reviews, source_weights),
         WeightSum(scored_reviews, source_weights))

\* lines 106-110
DaysSinceRelease(album, first_review_date) ==
    IF ~IsNone(album.release_date)
    THEN Some(first_review_date.day - Val(album.release_date))
    ELSE None

\* faulty variant of ReviewDates: the dates of the scored reviews only
ScoredReviewDates(reviews) ==
    [i \in 1..Len(SelectSeq(reviews, LAMBDA r : ~IsNone(r.review_score))) |->
        SelectSeq(reviews, LAMBDA r : ~IsNone(r.review_score))[i].published_date]

\* [r.published_date for r in reviews if r.published_date]
ReviewDates(reviews) == [i \in 1..Len(reviews) |-> reviews[i].published_date]

\* faulty variant of DerivedFields: review_count is the number of the
\* scored reviews
DerivedFieldsOfScored(album, reviews, scored_reviews, scores, source_ids, source_weights) ==
    [review_count |-> Len(scored_reviews),
     average_score |-> Mean(scores),
     weighted_average |-> WeightedAverage(scored_reviews, source_weights),
     median_score |-> Median(scores),
     score_stddev |-> StdevSquared(scores),
     consensus_strength |-> CalculateConsensusStrength(scores),
     controversy_score |-> ControversySquared(StdevSquared(scores)),
     source_ids |-> source_ids,
     review_item_ids |-> [i \in 1..Len(reviews) |-> reviews[i].id],
     score_distribution |-> CalculateScoreDistribution(scores),
     first_review_date |-> Some(MinDate(ReviewDates(reviews))),
     latest_review_date |-> Some(MaxDate(ReviewDates(reviews))),
     days_since_release |-> DaysSinceRelease(album, MinDate(ReviewDates(reviews)))]

\* lines 71-110: the values computed for the reviews matched to `album`
DerivedFields(album, reviews, scored_reviews, scores, source_ids, source_weights) ==
    [review_count |-> Len(reviews),
     average_score |-> Mean(scores),
     weighted_average |-> WeightedAverage(scored_reviews, source_weights),
     median_score |-> Median(scores),
     score_stddev |-> StdevSquared(scores),
     consensus_strength |-> CalculateConsensusStrength(scores),
     controversy_score |-> ControversySquared(StdevSquared(scores)),
     source_ids |-> source_ids,
     review_item_ids |-> [i \in 1..Len(reviews) |-> reviews[i].id],
     score_distribution |-> CalculateScoreDistribution(scores),
     first_review_date |-> Some(MinDate(ReviewDates(reviews))),
     latest_review_date |-> Some(MaxDate(ReviewDates(reviews))),
     days_since_release |-> DaysSinceRelease(album, MinDate(ReviewDates(reviews)))]

DerivedNames ==
    {"review_count", "average_score", "weighted_average", "median_score",
     "score_stddev", "consensus_strength", "controversy_score", "source_ids",
     "review_item_ids", "score_distribution", "first_review_date",
     "latest_review_date", "days_since_release"}

\* lines 136-152: a new AlbumReviewAggregate row
NewAggregate(st, album_id, d) ==
    [f \in DerivedNames \cup {"id", "album_id"} |->
        IF f = "id" THEN NextId(st.aggregates)
        ELSE IF f = "album_id" THEN album_id
        ELSE d[f]]

\* lines 120-133: the existing row with every derived field overwritten
UpdatedAggregate(old, d) ==
    [f \in DOMAIN old |-> IF f \in DerivedNames THEN d[f] ELSE old[f]]

\* faulty variant of UpsertAt: a row is added whether or not one exists
UpsertAlwaysAdds(st, album_id, d, idx) ==
    [st |-> [st EXCEPT !.aggregates = Append(@, NewAggregate(st, album_id, d))],
     ret |-> Some(NewAggregate(st, album_id, d)),
     raised |-> FALSE]

\* lines 118-155 with idx the positions of the rows of album_id
UpsertAt(st, album_id, d, idx) ==
    IF idx # {}
    THEN [st |-> [st EXCEPT !.aggregates[Min(idx)] =
                                UpdatedAggregate(st.aggregates[Min(idx)], d)],
          ret |-> Some(UpdatedAggregate(st.aggregates[Min(idx)], d)),
          raised |-> FALSE]
    ELSE [st |-> [st EXCEPT !.aggregates = Append(@, NewAggregate(st, album_id, d))],
          ret |-> Some(NewAggregate(st, album_id, d)),
          raised |-> FALSE]

\* faulty variant of Upsert: the existing row is looked up by its own id
UpsertById(st, album_id, d) ==
    UpsertAt(st, album_id, d,
             {i \in 1..Len(st.aggregates) : st.aggregates[i].id = album_id})

\* lines 112-155: update the aggregate of album_id in place, or add one
Upsert(st, album_id, d) ==
    UpsertAt(st, album_id, d,
             {i \in 1..Len(st.aggregates) : st.aggregates[i].album_id = album_id})

\* lines 76-163; the division of line 85 raises ZeroDivisionError when the
\* weights of the scored reviews sum to zero, before anything is written
AggregateScored(st, album_id, album, reviews, scored_reviews, source_ids, source_weights) ==
    IF WeightSum(scored_reviews, source_weights) = 0
    THEN [st |-> st, ret |-> None, raised |-> TRUE]
    ELSE Upsert(st, album_id,
                DerivedFields(album, reviews, scored_reviews, ScoresOf(scored_reviews),
                              source_ids, source_weights))

\* faulty variant of AggregateMatched: reviews without a score go on to the
\* statistics, where the empty list of scores ends the call
AggregateUnscored(st, album_id, album, reviews) ==
    IF Len(reviews) = 0 THEN [st |-> st, ret |-> None, raised |-> FALSE]
    ELSE AggregateScored(st, album_id, album, reviews, ScoredReviews(reviews),
                         SourceIdsOf(reviews),
                         GetSourceWeights(st, SourceIdsOf(reviews)))

\* lines 60-163 for the matched reviews
AggregateMatched(st, album_id, album, reviews) ==
    IF Len(reviews) = 0 THEN [st |-> st, ret |-> None, raised |-> FALSE]
    ELSE IF Len(ScoredReviews(reviews)) = 0 THEN [st |-> st, ret |-> None, raised |-> FALSE]
    ELSE AggregateScored(st, album_id, album, reviews, ScoredReviews(reviews),
                         SourceIdsOf(reviews),
                         GetSourceWeights(st, SourceIdsOf(reviews)))

\* lines 39-163 with album the result of session.get(Album, album_id)
AggregateFound(st, album_id, album) ==
    IF IsNone(album) THEN [st |-> st, ret |-> None, raised |-> FALSE]
    ELSE IF IsNone(GetById(st.artists, Val(album).artist_id))
         THEN [st |-> st, ret |-> None, raised |-> FALSE]
    ELSE AggregateMatched(st, album_id, Val(album), MatchedReviews(st, album_id))

\* ReviewAggregator.aggregate_reviews_for_album:
\* [st |-> store after the call, ret |-> the aggregate or None,
\*  raised |-> the call ended in an exception]
aggregate_reviews_for_album(st, album_id) ==
    AggregateFound(st, album_id, GetById(st.albums, album_id))

RECURSIVE MatchAll(_, _, _, _)

\* lines 181-183 with m the result of match_music_item_to_album
MatchAllStep(m, reviews, i, matched_albums) ==
    MatchAll(m.st, reviews, i + 1,
             IF ~IsNone(m.ret) THEN matched_albums \cup {Val(m.ret).id}
             ELSE matched_albums)

\* lines 178-187: resolve every review, creating what is missing
MatchAll(st, reviews, i, matched_albums) ==
    IF i > Len(reviews) THEN [st |-> st, matched_albums |-> matched_albums]
    ELSE MatchAllStep(match_music_item_to_album(st, reviews[i], TRUE),
                      reviews, i, matched_albums)

RECURSIVE AggregateEach(_, _, _, _)

\* lines 194-196 with r the result of aggregate_reviews_for_album
AggregateEachStep(r, album_ids, i, aggregates_out) ==
    IF r.raised THEN [st |-> r.st, ret |-> <<>>, raised |-> TRUE]
    ELSE AggregateEach(r.st, album_ids, i + 1,
                       IF ~IsNone(r.ret) THEN Append(aggregates_out, Val(r.ret))
                       ELSE aggregates_out)

\* lines 191-196: aggregate each matched album; an exception ends the loop
AggregateEach(st, album_ids, i, aggregates_out) ==
    IF i > Len(album_ids) THEN [st |-> st, ret |-> aggregates_out, raised |-> FALSE]
    ELSE AggregateEachStep(aggregate_reviews_for_album(st, album_ids[i]),
                           album_ids, i, aggregates_out)

\* lines 189-199 with m the result of the matching pass
AggregateAllMatched(m) ==
    [matched_albums |-> m.matched_albums]
    @@ AggregateEach(m.st, SetToSeq(m.matched_albums), 1, <<>>)

\* ReviewAggregator.aggregate_all_reviews
aggregate_all_reviews(st) ==
    AggregateAllMatched(MatchAll(st, AllReviews(st), 1, {}))

\* ---------------------------------------------------------------- queries
\* A SELECT ... ORDER BY ... LIMIT leaves the order of rows with equal keys
\* to the database: a query is the set of the result lists it can return.

\* the orderings of rows in which the key never rises: ORDER BY key DESC,
\* with at_most the pairs <<a, b>> of rows where the key of a is at most
\* that of b
Orderings(rows, at_most) ==
    {[i \in 1..Len(rows) |-> rows[p[i]]] :
        p \in {q \in [1..Len(rows) -> 1..Len(rows)] :
                  /\ \A i, j \in 1..Len(rows) : q[i] = q[j] => i = j
                  /\ \A i \in 1..(Len(rows) - 1) :
                         <<rows[q[i + 1]], rows[q[i]]>> \in at_most}}

RowPairs(rows) ==
    {rows[i] : i \in 1..Len(rows)} \X {rows[i] : i \in 1..Len(rows)}

\* .order_by(AlbumReviewAggregate.weighted_average.desc())
ByWeightedAverage(rows) ==
    Orderings(rows, {p \in RowPairs(rows) :
                        FracLe(p[1].weighted_average[1], p[1].weighted_average[2],
                               p[2].weighted_average[1], p[2].weighted_average[2])})

\* .order_by(AlbumReviewAggregate.controversy_score.desc())
ByControversy(rows) ==
    Orderings(rows, {p \in RowPairs(rows) :
                        FracLe(p[1].controversy_score[1], p[1].controversy_score[2],
                               p[2].controversy_score[1], p[2].controversy_score[2])})

\* .order_by(AlbumReviewAggregate.latest_review_date.desc())
ByLatestReview(rows) ==
    Orderings(rows, {p \in RowPairs(rows) :
                        DtLe(Val(p[1].latest_review_date), Val(p[2].latest_review_date))})

\* .limit(limit)
Take(rows, limit) == SubSeq(rows, 1, Min({limit, Len(rows)}))

\* faulty variant of get_top_rated_albums: an aggregate needs more than
\* min_reviews reviews
TopRatedAboveMinimum(st, limit, min_reviews) ==
    {Take(o, limit) :
        o \in ByWeightedAverage(SelectSeq(st.aggregates,
                                          LAMBDA g : g.review_count > min_reviews))}

\* ReviewAggregator.get_top_rated_albums
get_top_rated_albums(st, limit, min_reviews) ==
    {Take(o, limit) :
        o \in ByWeightedAverage(SelectSeq(st.aggregates,
                                          LAMBDA g : g.review_count >= min_reviews))}

\* ReviewAggregator.get_controversial_albums
get_controversial_albums(st, limit, min_reviews) ==
    {Take(o, limit) :
        o \in ByControversy(SelectSeq(st.aggregates,
                                      LAMBDA g : g.review_count >= min_reviews))}

\* faulty variant of get_recent_aggregates: only the aggregates whose latest
\* review is from the `days` days before 2020-01-02
RecentWithinDays(st, days, limit) ==
    {Take(o, limit) :
        o \in ByLatestReview(SelectSeq(st.aggregates,
                                       LAMBDA g : /\ ~IsNone(g.latest_review_date)
                                                  /\ Val(g.latest_review_date).day + days >= 366))}

\* ReviewAggregator.get_recent_aggregates: `days` is not used
get_recent_aggregates(st, days, limit) ==
    {Take(o, limit) :
        o \in ByLatestReview(SelectSeq(st.aggregates,
                                       LAMBDA g : ~IsNone(g.latest_review_date)))}

\* ----------------------------------------------------------------- inputs

\* publication timestamps: `day` counts days from 2019-01-01, `tick` is the
\* half of the day; 2019-12-31 12:00, 2020-01-01 00:00, 2020-01-01 12:00
Date1 == [year |-> 2019, day |-> 364, tick |-> 1]

Date2 == [year |-> 2020, day |-> 365, tick |-> 0]

Date3 == [year |-> 2020, day |-> 365, tick |-> 1]

\* MusicItem rows as ingestion stores them (without the id)
Item(content_type, artists_, album_, score, source_id, published_date) ==
    [content_type |-> content_type, artists |-> artists_, album |-> album_,
     review_score |-> score, source_id |-> source_id,
     published_date |-> published_date]

\* Album rows as other parts of the system store them (without the id)
AlbumRow(title, artist_id, release_date, release_year) ==
    [title |-> title, artist_id |-> artist_id,
     release_date |-> release_date, release_year |-> release_year]

\* ---------------------------------------------------------------- actions

Store == [artists |-> artists, albums |-> albums, items |-> items,
          sources |-> sources, aggregates |-> aggregates]

Commit(st) ==
    /\ artists' = st.artists
    /\ albums' = st.albums
    /\ items' = st.items
    /\ sources' = st.sources
    /\ aggregates' = st.aggregates

\* the last operation on the store and how it ended: `ret` is what it
\* returned (an optional row, or the list of rows of a query or of
\* aggregate_all_reviews), `created` tells that it added a row to the table
\* it returns rows of.  `made` is the record of the calls of match_artist and
\* match_album that created a row, each with the id of that row.
Done(op, arg, ret, raised, matched, created) ==
    [op |-> op, arg |-> arg, ret |-> ret, raised |-> raised,
     matched |-> matched, created |-> created]

\* the store right after create_db_and_tables()
Init ==
    /\ artists = <<>>
    /\ albums = <<>>
    /\ items = <<>>
    /\ sources = <<>>
    /\ aggregates = <<>>
    /\ last = Done("init", 0, None, FALSE, {}, FALSE)
    /\ made = {}

\* ingestion stores a MusicItem
InsertItem(pool, max) ==
    \E t \in pool :
        /\ Len(items) < max
        /\ items' = Append(items, [id |-> NextId(items)] @@ t)
        /\ last' = Done("insert_item", 0, None, FALSE, {}, FALSE)
        /\ UNCHANGED <<artists, albums, sources, aggregates, made>>

\* a Source row is stored
InsertSource(weights, max) ==
    \E w \in weights :
        /\ Len(sources) < max
        /\ sources' = Append(sources, [id |-> NextId(sources), weight |-> w])
        /\ last' = Done("insert_source", 0, None, FALSE, {}, FALSE)
        /\ UNCHANGED <<artists, albums, items, aggregates, made>>

\* an Album row is stored by another part of the system
InsertAlbum(pool, max) ==
    \E t \in pool :
        /\ Len(albums) < max
        /\ albums' = Append(albums,
               [id |-> NextId(albums), normalized_title |-> Norm(t.title)] @@ t)
        /\ last' = Done("insert_album", 0, None, FALSE, {}, FALSE)
        /\ UNCHANGED <<artists, items, sources, aggregates, made>>

\* the store and the outcome after a call that ended as r
Returned(r, op, arg, matched) ==
    /\ Commit(r.st)
    /\ last' = Done(op, arg, r.ret, r.raised, matched,
                    Len(r.st.aggregates) > Len(aggregates))
    /\ UNCHANGED made

\* a call of aggregate_reviews_for_album(album_id), for the id of a stored
\* album or of none
AggregateAlbum ==
    \E album_id \in 1..(Len(albums) + 1) :
        \E r \in {aggregate_reviews_for_album(Store, album_id)} :
            Returned(r, "aggregate_reviews_for_album", album_id, {})

\* a call of aggregate_all_reviews()
AggregateAll ==
    \E r \in {aggregate_all_reviews(Store)} :
        Returned(r, "aggregate_all_reviews", 0, r.matched_albums)

\* a matcher call ended as r; `grew` tells that it added a row to the table
\* it returns a row of
Resolved(r, op, arg, grew) ==
    /\ Commit(r.st)
    /\ last' = Done(op, arg, r.ret, FALSE, {}, grew)
    /\ made' = IF grew
               THEN made \cup {[op |-> op, arg |-> arg, id |-> Val(r.ret).id]}
               ELSE made

\* a call of match_artist(artist_name, create_if_missing)
MatchArtist(names, max) ==
    \E artist_name \in names, create_if_missing \in BOOLEAN :
        \E r \in {match_artist(Store, artist_name, create_if_missing)} :
            /\ Len(r.st.artists) <= max
            /\ Resolved(r, "match_artist", <<artist_name, create_if_missing>>,
                        Len(r.st.artists) > Len(artists))

\* a call of match_album(album_title, artist_name, create_if_missing, release_year)
MatchAlbum(titles, names, years, max_artists, max_albums) ==
    \E album_title \in titles, artist_name \in names, create_if_missing \in BOOLEAN, release_year \in years :
        \E r \in {match_album(Store, album_title, artist_name, create_if_missing, release_year)} :
            /\ Len(r.st.artists) <= max_artists
            /\ Len(r.st.albums) <= max_albums
            /\ Resolved(r, "match_album",
                        <<album_title, artist_name, create_if_missing, release_year>>,
                        Len(r.st.albums) > Len(albums))

\* a call of match_music_item_to_album(music_item, create_if_missing) for a
\* stored item
MatchItem(max_artists, max_albums) ==
    \E i \in 1..Len(items), create_if_missing \in BOOLEAN :
        \E r \in {match_music_item_to_album(Store, items[i], create_if_missing)} :
            /\ Len(r.st.artists) <= max_artists
            /\ Len(r.st.albums) <= max_albums
            /\ Resolved(r, "match_music_item_to_album", <<items[i].id, create_if_missing>>,
                        Len(r.st.albums) > Len(albums))

\* the values the callers pass for limit, min_reviews and days (api/reviews.py
\* admits limit >= 1, min_reviews >= 1 and days >= 1)
LimitPool == {1, 2}

MinReviewsPool == {1, 2}

DaysPool == {1, 30}

\* a query returned r; the store is as it was
Queried(op, arg, r) ==
    /\ last' = Done(op, arg, r, FALSE, {}, FALSE)
    /\ UNCHANGED <<artists, albums, items, sources, aggregates, made>>

\* a call of get_top_rated_albums(limit, min_reviews)
GetTopRated ==
    \E limit \in LimitPool, min_reviews \in MinReviewsPool :
        \E r \in get_top_rated_albums(Store, limit, min_reviews) :
            Queried("get_top_rated_albums", <<limit, min_reviews>>, r)

\* a call of get_controversial_albums(limit, min_reviews)
GetControversial ==
    \E limit \in LimitPool, min_reviews \in MinReviewsPool :
        \E r \in get_controversial_albums(Store, limit, min_reviews) :
            Queried("get_controversial_albums", <<limit, min_reviews>>, r)

\* a call of get_recent_aggregates(days, limit)
GetRecent ==
    \E days \in DaysPool, limit \in LimitPool :
        \E r \in get_recent_aggregates(Store, days, limit) :
            Queried("get_recent_aggregates", <<days, limit>>, r)

\* ------------------------------------------------- the store in general
\* reviews of three artists, scored or not, with and without an artist
\* mention, and an album whose artist may be missing

MaxReviews == 2

MaxInserted == 1

ReviewPool ==
    {Item("review", <<Name_abc>>, Title_xyz, Some(80), 1, Date2),
     Item("review", <<Name_abcd>>, Title_xyzw, Some(60), 2, Date3),
     Item("review", <<Name_abc>>, Title_xyz, None, 1, Date1),
     Item("review", <<>>, Title_xyz, Some(90), 1, Date2),
     Item("review", <<Name_uvw>>, Title_xyz, Some(90), 2, Date2),
     Item("news", <<Name_abc>>, Title_xyz, Some(100), 1, Date1)}

AlbumPool == {AlbumRow(Title_xyz, 2, None, None)}

Next ==
    \/ InsertItem(ReviewPool, MaxReviews)
    \/ InsertAlbum(AlbumPool, MaxInserted)
    \/ AggregateAlbum
    \/ AggregateAll

Spec == Init /\ [][Next]_vars

\* --------------------------------------------- the statistics of an album
\* reviews of one album from one source without a Source row; the scores are
\* the least, the greatest and those on the limits of the score ranges

MaxStatReviews == 3

StatScores == {0, 30, 50, 70, 80, 90, 100}

StatsPool ==
    {Item("review", <<Name_abc>>, Title_xyz, Some(s), 1, Date1) : s \in StatScores}
    \cup {Item("review", <<Name_abc>>, Title_xyz, None, 1, Date1)}

NextStats ==
    \/ InsertItem(StatsPool, MaxStatReviews)
    \/ AggregateAlbum
    \/ AggregateAll

SpecStats == Init /\ [][NextStats]_vars

\* ------------------------------------------------------ weighted sources
\* reviews of one album from three sources, of which at most the first ones
\* have a Source row; a source may weigh nothing

MaxWeightReviews == 2

MaxSources == 2

WeightPool == {0, 10, 15}

WeightItemPool ==
    {Item("review", <<Name_abc>>, Title_xyz, Some(60), 1, Date1),
     Item("review", <<Name_abc>>, Title_xyz, Some(90), 2, Date1),
     Item("review", <<Name_abc>>, Title_xyz, Some(90), 3, Date1),
     Item("review", <<Name_abc>>, Title_xyz, None, 1, Date1)}

NextWeights ==
    \/ InsertItem(WeightItemPool, MaxWeightReviews)
    \/ InsertSource(WeightPool, MaxSources)
    \/ AggregateAlbum
    \/ AggregateAll

SpecWeights == Init /\ [][NextWeights]_vars

\* -------------------------------------------------------- review dates
\* reviews of one album published on two days, before and after the release

MaxDateReviews == 2

MaxReleases == 1

DatePool ==
    {Item("review", <<Name_abc>>, Title_xyz, Some(80), 1, Date2),
     Item("review", <<Name_abc>>, Title_xyz, Some(70), 1, Date1),
     Item("review", <<Name_abc>>, Title_xyz, None, 1, Date1),
     Item("review", <<Name_abc>>, Title_xyz, None, 1, Date3)}

ReleasePool ==
    {AlbumRow(Title_xyz, 1, Some(365), Some(2020)),
     AlbumRow(Title_xyz, 1, None, None)}

NextDates ==
    \/ InsertItem(DatePool, MaxDateReviews)
    \/ InsertAlbum(ReleasePool, MaxReleases)
    \/ AggregateAlbum
    \/ AggregateAll

SpecDates == Init /\ [][NextDates]_vars

\* ---------------------------------------------------- the ranking queries
\* reviews of three albums with different scores and dates, aggregated and
\* then ranked

MaxQueryReviews == 3

QueryPool ==
    {Item("review", <<Name_abc>>, Title_xyz, Some(80), 1, Date2),
     Item("review", <<Name_abc>>, Title_xyz, Some(60), 1, Date3),
     Item("review", <<Name_uvw>>, Title_xyz, Some(90), 1, Date1),
     Item("review", <<Name_uvw>>, Title_xyzw, Some(80), 1, Date2)}

NextQueries ==
    \/ InsertItem(QueryPool, MaxQueryReviews)
    \/ AggregateAll
    \/ GetTopRated
    \/ GetControversial
    \/ GetRecent

SpecQueries == Init /\ [][NextQueries]_vars

\* ------------------------------------------------------ resolving artists
\* names that are equal after normalization, similar at or above the
\* threshold, similar below it, and one that normalizes to nothing

MaxArtists == 3

ArtistNames == {Name_abc, Name_The_abc, Name_bcd, Name_abcd, Name_abcde, Name_bang}

NextArtists == MatchArtist(ArtistNames, MaxArtists)

SpecArtists == Init /\ [][NextArtists]_vars

\* ------------------------------------------------------- resolving albums
\* titles similar at 6/7, 8/9 and 3/4, of two artists that are not similar
\* enough to be taken for one another, with and without a release year

MaxOwners == 2

MaxAlbums == 2

AlbumTitles == {Title_xyz, Title_xyzw, Title_xyzwv}

OwnerNames == {Name_abc, Name_abcde}

YearPool == {None, Some(2020)}

NextAlbums == MatchAlbum(AlbumTitles, OwnerNames, YearPool, MaxOwners, MaxAlbums)

SpecAlbums == Init /\ [][NextAlbums]_vars

\* ------------------------------------------------- the matcher as a whole
\* every operation of the matcher, with and without creation, and the
\* aggregation of one album, over two names similar enough to be taken for
\* one another

MaxMatcherArtists == 1

MaxMatcherAlbums == 1

MaxMatcherItems == 1

MatcherNames == {Name_abc, Name_abcd}

MatcherItems ==
    {Item("review", <<Name_abcd>>, Title_xyz, Some(80), 1, Date2),
     Item("review", <<>>, Title_xyz, Some(60), 1, Date2),
     Item("review", <<<<>>, Name_abc>>, Title_xyz, Some(60), 1, Date2),
     Item("review", <<Name_abc>>, <<>>, Some(60), 1, Date1)}

NextMatcher ==
    \/ InsertItem(MatcherItems, MaxMatcherItems)
    \/ MatchArtist(MatcherNames, MaxMatcherArtists)
    \/ MatchAlbum({Title_xyz}, MatcherNames, {None}, MaxMatcherArtists, MaxMatcherAlbums)
    \/ MatchItem(MaxMatcherArtists, MaxMatcherAlbums)
    \/ AggregateAlbum

SpecMatcher == Init /\ [][NextMatcher]_vars

\* ------------------------------------------------------- repeated calls
\* calls of match_artist and match_album over names of which the middle one
\* is similar enough to both others and these two are not to one another

MaxRepeatArtists == 2

MaxRepeatAlbums == 1

RepeatNames == {Name_abc, Name_abcd, Name_abcde}

NextRepeat ==
    \/ MatchArtist(RepeatNames, MaxRepeatArtists)
    \/ MatchAlbum({Title_xyz}, RepeatNames, {None}, MaxRepeatArtists, MaxRepeatAlbums)

SpecRepeat == Init /\ [][NextRepeat]_vars

\* ------------------------------------------------ resolution that moves
\* reviews of three artists of which the middle one is similar enough to
\* both others and these two are not to one another, aggregated as they
\* come in

MaxDriftReviews == 3

DriftPool ==
    {Item("review", <<Name_abc>>, Title_xyz, Some(80), 1, Date1),
     Item("review", <<Name_abcd>>, Title_xyzwv, Some(60), 1, Date2),
     Item("review", <<Name_abcde>>, Title_xyz, Some(90), 1, Date1)}

NextDrift ==
    \/ InsertItem(DriftPool, MaxDriftReviews)
    \/ AggregateAlbum
    \/ AggregateAll

SpecDrift == Init /\ [][NextDrift]_vars

\* -------------------------------------------- the entities that get created
\* every creating operation of the matcher over names and titles that are
\* partly similar enough to be taken for one another, from a store without
\* artists and albums

MaxEntityArtists == 2

MaxEntityAlbums == 2

EntityNames == {Name_abc, Name_abcd, Name_abcde}

EntityTitles == {Title_xyz}

\* the reviews that are stored when the matcher starts
EntityItems ==
    <<[id |-> 1] @@ Item("review", <<Name_abcd>>, Title_xyzwv, Some(60), 1, Date2),
      [id |-> 2] @@ Item("review", <<Name_abcde>>, Title_xyz, Some(90), 1, Date1)>>

InitEntities ==
    /\ artists = <<>>
    /\ albums = <<>>
    /\ items = EntityItems
    /\ sources = <<>>
    /\ aggregates = <<>>
    /\ last = Done("init", 0, None, FALSE, {}, FALSE)
    /\ made = {}

NextEntities ==
    \/ MatchArtist(EntityNames, MaxEntityArtists)
    \/ MatchAlbum(EntityTitles, EntityNames, {None}, MaxEntityArtists, MaxEntityAlbums)
    \/ MatchItem(MaxEntityArtists, MaxEntityAlbums)

SpecEntities == InitEntities /\ [][NextEntities]_vars

\* ------------------------------------------------ reviews without a score
\* scored and unscored reviews of two albums from two sources, aggregated
\* and then ranked

MaxCountReviews == 2

CountPool ==
    {Item("review", <<Name_abc>>, Title_xyz, Some(80), 1, Date1),
     Item("review", <<Name_abc>>, Title_xyz, None, 2, Date2),
     Item("review", <<Name_uvw>>, Title_xyz, Some(90), 1, Date1)}

NextCounts ==
    \/ InsertItem(CountPool, MaxCountReviews)
    \/ AggregateAlbum
    \/ AggregateAll
    \/ GetTopRated
    \/ GetControversial

SpecCounts == Init /\ [][NextCounts]_vars

\* ------------------------------------------------------ regular expressions
\* The part of Python's re that score_parser.py uses.  A pattern is one of
\*   [k |-> "chr", s |-> S]       one character of the set S
\*   [k |-> "any"]                .  (the texts hold no line break)
\*   [k |-> "wb"]                 \b
\*   [k |-> "cat", rs |-> <<..>>] the patterns rs one after the other
\*   [k |-> "alt", rs |-> <<..>>] the first of the patterns rs that fits
\*   [k |-> "rep", r |-> r, min |-> m, max |-> n, greedy |-> g]
\*                                r repeated m to n times (n = -1: unbounded),
\*                                as often (g) or as seldom as possible
\*   [k |-> "grp", r |-> r]       the capturing group (no pattern has two)

DigitChars == {"0", "1", "2", "3", "4", "5", "6", "7", "8", "9"}

\* the regular expression class \w
WordChars ==
    DigitChars \cup {"_"} \cup {UpperLetters[i] : i \in 1..26} \cup {LowerLetters[i] : i \in 1..26}

\* str.upper() on one character
UpperChar(c) ==
    IF \E i \in 1..26 : LowerLetters[i] = c
    THEN UpperLetters[CHOOSE i \in 1..26 : LowerLetters[i] = c]
    ELSE c

\* text.upper()
Upper(s) == [i \in 1..Len(s) |-> UpperChar(s[i])]

Chr(S) == [k |-> "chr", s |-> S]

Cat(rs) == [k |-> "cat", rs |-> rs]

Alt(rs) == [k |-> "alt", rs |-> rs]

Rep(r, min, max, greedy) == [k |-> "rep", r |-> r, min |-> min, max |-> max, greedy |-> greedy]

Grp(r) == [k |-> "grp", r |-> r]

\* the literal text s
Lit(s) == Cat([i \in 1..Len(s) |-> Chr({s[i]})])

\* the literal text s under re.IGNORECASE
LitI(s) == Cat([i \in 1..Len(s) |-> Chr({LowerChar(s[i]), UpperChar(s[i])})])

\* \s*, \d+ and .*?
Spaces == Rep(Chr(SpaceChars), 0, -1, TRUE)

DigitRun == Rep(Chr(DigitChars), 1, -1, TRUE)

Lazily == Rep([k |-> "any"], 0, -1, FALSE)

\* whether text[i] is a word character
IsWordAt(text, i) == i >= 1 /\ i <= Len(text) /\ text[i] \in WordChars

RECURSIVE Matches(_, _, _, _)
RECURSIVE CatFrom(_, _, _, _, _)
RECURSIVE CatOver(_, _, _, _, _)
RECURSIVE AltFrom(_, _, _, _, _)
RECURSIVE RepFrom(_, _, _, _, _)
RECURSIVE RepOver(_, _, _, _, _, _)

\* the group is what its pattern consumed from pos on
GrpOver(found, pos) == [j \in 1..Len(found) |-> <<found[j][1], <<pos, found[j][1]>>>>]

\* the ways <<end, capture>> in which pattern r fits text from pos on, in
\* the order in which the backtracking matcher tries them; capture is <<>>
\* or <<first, end>> of the group
Matches(r, text, pos, cap) ==
    CASE r.k = "chr" -> IF pos <= Len(text) /\ text[pos] \in r.s
                        THEN <<<<pos + 1, cap>>>> ELSE <<>>
      [] r.k = "any" -> IF pos <= Len(text) THEN <<<<pos + 1, cap>>>> ELSE <<>>
      [] r.k = "wb" -> IF IsWordAt(text, pos - 1) # IsWordAt(text, pos)
                       THEN <<<<pos, cap>>>> ELSE <<>>
      [] r.k = "cat" -> CatFrom(r.rs, 1, text, pos, cap)
      [] r.k = "alt" -> AltFrom(r.rs, 1, text, pos, cap)
      [] r.k = "rep" -> RepFrom(r, 0, text, pos, cap)
      [] r.k = "grp" -> GrpOver(Matches(r.r, text, pos, cap), pos)

CatFrom(rs, i, text, pos, cap) ==
    IF i > Len(rs) THEN <<<<pos, cap>>>>
    ELSE CatOver(rs, i, text, Matches(rs[i], text, pos, cap), 1)

CatOver(rs, i, text, found, j) ==
    IF j > Len(found) THEN <<>>
    ELSE CatFrom(rs, i + 1, text, found[j][1], found[j][2])
         \o CatOver(rs, i, text, found, j + 1)

AltFrom(rs, i, text, pos, cap) ==
    IF i > Len(rs) THEN <<>>
    ELSE Matches(rs[i], text, pos, cap) \o AltFrom(rs, i + 1, text, pos, cap)

\* r.r was repeated n times up to pos
RepFrom(r, n, text, pos, cap) ==
    IF r.greedy
    THEN (IF r.max = -1 \/ n < r.max
          THEN RepOver(r, n, text, Matches(r.r, text, pos, cap), 1, pos) ELSE <<>>)
         \o (IF n >= r.min THEN <<<<pos, cap>>>> ELSE <<>>)
    ELSE (IF n >= r.min THEN <<<<pos, cap>>>> ELSE <<>>)
         \o (IF r.max = -1 \/ n < r.max
             THEN RepOver(r, n, text, Matches(r.r, text, pos, cap), 1, pos) ELSE <<>>)

RepOver(r, n, text, found, j, pos) ==
    IF j > Len(found) THEN <<>>
    ELSE (IF found[j][1] > pos
          THEN RepFrom(r, n + 1, text, found[j][1], found[j][2]) ELSE <<>>)
         \o RepOver(r, n, text, found, j + 1, pos)

RECURSIVE SearchFrom(_, _, _)

\* the match object for the first of the ways `found` from pos, else the search goes on
SearchAt(r, text, pos, found) ==
    IF Len(found) > 0
    THEN Some([group0 |-> SubSeq(text, pos, found[1][1] - 1),
               groups |-> IF Len(found[1][2]) = 0 THEN <<>>
                          ELSE <<SubSeq(text, found[1][2][1], found[1][2][2] - 1)>>])
    ELSE SearchFrom(r, text, pos + 1)

SearchFrom(r, text, pos) ==
    IF pos > Len(text) + 1 THEN None
    ELSE SearchAt(r, text, pos, Matches(r, text, pos, <<>>))

\* re.search(pattern, text): the leftmost match, None if there is none
Search(r, text) == SearchFrom(r, text, 1)

\* ------------------------------------------------------------ ScoreParser
\* score_parser.py.  A score is an exact fraction <<numerator, denominator>>
\* on the scale of 0 to 10, a confidence is counted in hundredths.  The star
\* glyph U+2605 is written "*" (the module text is ASCII).

Star == "*"

\* the text of a string literal, character by character
Chars(str) == [i \in 1..Len(str) |-> SubSeq(str, i, i)]

DigitSeq == <<"0", "1", "2", "3", "4", "5", "6", "7", "8", "9">>

DigitValue(c) == (CHOOSE i \in 1..10 : DigitSeq[i] = c) - 1

RECURSIVE ToInt(_)
\* the number the digits s are the decimal notation of
ToInt(s) ==
    IF Len(s) = 0 THEN 0
    ELSE ToInt(SubSeq(s, 1, Len(s) - 1)) * 10 + DigitValue(s[Len(s)])

RECURSIVE Pow10(_)
Pow10(n) == IF n = 0 THEN 1 ELSE 10 * Pow10(n - 1)

\* the positions of character c in s
PositionsOf(s, c) == {i \in 1..Len(s) : s[i] = c}

\* digits with at most one point among them: the notations of a number that
\* the patterns can capture
IsNumber(s) ==
    /\ \E i \in 1..Len(s) : s[i] \in DigitChars
    /\ \A i \in 1..Len(s) : s[i] \in DigitChars \cup {"."}
    /\ Cardinality(PositionsOf(s, ".")) <= 1

\* the value of the number s with its point at position p
NumberAt(s, p) ==
    Frac(ToInt(SubSeq(s, 1, p - 1)) * Pow10(Len(s) - p) + ToInt(SubSeq(s, p + 1, Len(s))),
         Pow10(Len(s) - p))

\* float(s): the value, None where float raises ValueError
Float(s) ==
    IF ~IsNumber(s) THEN None
    ELSE IF PositionsOf(s, ".") = {} THEN Some(<<ToInt(s), 1>>)
    ELSE Some(NumberAt(s, CHOOSE p \in PositionsOf(s, ".") : TRUE))

\* (float(num) / float(denom)) * 10, capped at 10.0; None for a ValueError
\* or a ZeroDivisionError
TenTimesQuotient(num, denom) ==
    IF IsNone(num) \/ IsNone(denom) THEN None
    ELSE IF Val(denom)[1] = 0 THEN None
    ELSE IF Val(num)[1] * Val(denom)[2] >= Val(num)[2] * Val(denom)[1] THEN Some(<<10, 1>>)
    ELSE Some(Frac(10 * Val(num)[1] * Val(denom)[2], Val(num)[2] * Val(denom)[1]))

\* lines 163-168: raw_value in the format "fraction"
NormalizeFraction(raw_value, slashes) ==
    IF slashes = {} THEN Float(raw_value)
    ELSE IF Cardinality(slashes) > 1 THEN None
    ELSE TenTimesQuotient(
             Float(SubSeq(raw_value, 1, (CHOOSE p \in slashes : TRUE) - 1)),
             Float(SubSeq(raw_value, (CHOOSE p \in slashes : TRUE) + 1, Len(raw_value))))

\* lines 177-183
grade_map ==
    <<<<"A+", <<10, 1>>>>, <<"A", <<9, 1>>>>, <<"A-", <<17, 2>>>>,
      <<"B+", <<8, 1>>>>, <<"B", <<7, 1>>>>, <<"B-", <<13, 2>>>>,
      <<"C+", <<6, 1>>>>, <<"C", <<5, 1>>>>, <<"C-", <<9, 2>>>>,
      <<"D+", <<4, 1>>>>, <<"D", <<3, 1>>>>, <<"D-", <<5, 2>>>>,
      <<"F", <<1, 1>>>>>>

\* lines 188-191
text_map ==
    <<<<"excellent", <<9, 1>>>>, <<"great", <<8, 1>>>>, <<"good", <<7, 1>>>>,
      <<"average", <<5, 1>>>>, <<"poor", <<3, 1>>>>, <<"terrible", <<1, 1>>>>>>

\* dict.get(key) for a dict written as the list of its <<key, value>>
Get(map, key) ==
    IF \E i \in 1..Len(map) : Chars(map[i][1]) = key
    THEN Some(map[CHOOSE i \in 1..Len(map) : Chars(map[i][1]) = key][2])
    ELSE None

\* float(raw_value) / 100.0 * 10
Percentage(value) == IF IsNone(value) THEN None ELSE Some(Frac(Val(value)[1], 10 * Val(value)[2]))

\* ScoreParser._normalize_score
normalize_score(raw_value, format_type) ==
    CASE format_type = "decimal" -> Float(raw_value)
      [] format_type = "fraction" -> NormalizeFraction(raw_value, PositionsOf(raw_value, "/"))
      [] format_type = "stars" ->
             Some(Frac(10 * Cardinality(PositionsOf(raw_value, Star)), 5))
      [] format_type = "letter" -> Get(grade_map, Upper(raw_value))
      [] format_type = "text" -> Get(text_map, Lower(raw_value))
      [] format_type = "percentage" -> Percentage(Float(raw_value))
      [] OTHER -> None

\* \d+\.\d+ in a group, and \s*out\s*of\s*10
DecimalGroup == Grp(Cat(<<DigitRun, Chr({"."}), DigitRun>>))

OutOfTen == Cat(<<Spaces, LitI(Chars("out")), Spaces, LitI(Chars("of")), Spaces, LitI(Chars("10"))>>)

\* lines 76-83: the patterns of _parse_sonic_perspectives for the overall score
sonic_overall_patterns ==
    <<[pattern |-> Cat(<<Alt(<<Cat(<<LitI(Chars("overall")), Spaces, LitI(Chars("score"))>>),
                               LitI(Chars("score"))>>),
                         Lazily, DecimalGroup, OutOfTen>>),
       format_type |-> "decimal", confidence |-> 95],
      [pattern |-> Cat(<<DecimalGroup, OutOfTen>>),
       format_type |-> "decimal", confidence |-> 90],
      [pattern |-> Cat(<<LitI(Chars("score")), Lazily, DecimalGroup, Lazily,
                         Alt(<<LitI(Chars("excellent")), LitI(Chars("good")), LitI(Chars("average"))>>)>>),
       format_type |-> "decimal", confidence |-> 85]>>

\* category:\s*(\d+)(?:/10)?
SubCategoryPattern(category) ==
    Cat(<<LitI(category), LitI(Chars(":")), Spaces, Grp(DigitRun), Rep(LitI(Chars("/10")), 0, 1, TRUE)>>)

\* lines 99-104: the patterns of _parse_sonic_perspectives for the sub-categories
sonic_category_patterns ==
    <<[pattern |-> SubCategoryPattern(Chars("songwriting")), category |-> "songwriting"],
      [pattern |-> SubCategoryPattern(Chars("musicianship")), category |-> "musicianship"],
      [pattern |-> SubCategoryPattern(Chars("originality")), category |-> "originality"],
      [pattern |-> SubCategoryPattern(Chars("production")), category |-> "production"]>>

\* lines 33-38
prog_report_patterns ==
    <<[pattern |-> Cat(<<Grp(DigitRun), Lit(Chars("/10"))>>), format_type |-> "fraction"],
      [pattern |-> Cat(<<Grp(DigitRun), Lit(Chars("/5"))>>), format_type |-> "fraction"],
      [pattern |-> Cat(<<Lit(Chars("Rating:")), Spaces,
                         Grp(Cat(<<DigitRun, Rep(Chr({"."}), 0, 1, TRUE),
                                   Rep(Chr(DigitChars), 0, -1, TRUE)>>))>>),
       format_type |-> "decimal"]>>

\* (?:a|b|c):\s* under re.IGNORECASE
Label(words) == Cat(<<Alt([i \in 1..Len(words) |-> LitI(words[i])]), LitI(Chars(":")), Spaces>>)

\* lines 41-51, as _parse_universal searches them (re.IGNORECASE)
universal_patterns ==
    <<[pattern |-> Cat(<<Grp(Chr({"1", "2", "3", "4", "5"})), LitI(Chars("/5")), Spaces,
                         LitI(Chars("star")), Rep(LitI(Chars("s")), 0, 1, TRUE)>>),
       format_type |-> "fraction"],
      [pattern |-> Rep(Chr({Star}), 1, 5, TRUE), format_type |-> "stars"],
      [pattern |-> Cat(<<Label(<<Chars("grade"), Chars("rating"), Chars("score")>>),
                         Grp(Cat(<<Chr({"A", "B", "C", "D", "E", "F",
                                        "a", "b", "c", "d", "e", "f"}),
                                   Rep(Chr({"+", "-"}), 0, 1, TRUE)>>)),
                         [k |-> "wb"]>>),
       format_type |-> "letter"],
      [pattern |-> Cat(<<Label(<<Chars("rating"), Chars("score")>>),
                         Grp(Alt(<<LitI(Chars("excellent")), LitI(Chars("great")), LitI(Chars("good")),
                                   LitI(Chars("average")), LitI(Chars("poor")), LitI(Chars("terrible"))>>)),
                         [k |-> "wb"]>>),
       format_type |-> "text"],
      [pattern |-> Cat(<<Label(<<Chars("score"), Chars("rating")>>), Grp(DigitRun), LitI(Chars("%"))>>),
       format_type |-> "percentage"]>>

\* the dataclass ParsedScore
ParsedScore(raw_score, normalized_score, confidence, format_type, sub_scores) ==
    [raw_score |-> raw_score, normalized_score |-> normalized_score,
     confidence |-> confidence, format_type |-> format_type, sub_scores |-> sub_scores]

\* whether low <= x <= high for fraction x
InRange(x, low, high) == low * x[2] <= x[1] /\ x[1] <= high * x[2]

RECURSIVE SonicOverall(_, _)

\* lines 87-95 for the match of pattern i
SonicOverallAt(content, i, match) ==
    IF IsNone(match) THEN SonicOverall(content, i + 1)
    ELSE IF InRange(Val(Float(Val(match).groups[1])), 0, 10)
    THEN Some(ParsedScore(Val(match).group0, Val(Float(Val(match).groups[1])),
                          sonic_overall_patterns[i].confidence,
                          sonic_overall_patterns[i].format_type, None))
    ELSE SonicOverall(content, i + 1)

\* lines 85-95: the loop over the overall patterns from i on
SonicOverall(content, i) ==
    IF i > Len(sonic_overall_patterns) THEN None
    ELSE SonicOverallAt(content, i, Search(sonic_overall_patterns[i].pattern, content))

RECURSIVE SubScores(_, _)
\* lines 106-109: sub_scores as the list of the categories found from i on
SubScores(content, i) ==
    IF i > Len(sonic_category_patterns) THEN <<>>
    ELSE (IF IsNone(Search(sonic_category_patterns[i].pattern, content)) THEN <<>>
          ELSE <<[category |-> sonic_category_patterns[i].category,
                  value |-> ToInt(Val(Search(sonic_category_patterns[i].pattern,
                                             content)).groups[1])]>>)
         \o SubScores(content, i + 1)

\* lines 111-122
SonicAverage(sub_scores) ==
    IF Len(sub_scores) >= 2
    THEN Some(ParsedScore(Chars("Average of ") \o <<DigitSeq[Len(sub_scores) + 1]>> \o Chars(" categories"),
                          Frac(SumSeq([j \in 1..Len(sub_scores) |-> sub_scores[j].value]),
                               Len(sub_scores)),
                          80, "subcategory", Some(sub_scores)))
    ELSE None

\* ScoreParser._parse_sonic_perspectives
parse_sonic_perspectives(content) ==
    IF ~IsNone(SonicOverall(content, 1)) THEN SonicOverall(content, 1)
    ELSE SonicAverage(SubScores(content, 1))

RECURSIVE PatternLoop(_, _, _, _)

\* the body of the loops of _parse_prog_report and _parse_universal for the
\* match of pattern i: match.group(1) raises IndexError for a pattern
\* without a group
PatternLoopAt(patterns, content, confidence, i, match) ==
    IF IsNone(match) THEN PatternLoop(patterns, content, confidence, i + 1)
    ELSE IF Len(Val(match).groups) = 0 THEN [ret |-> None, raised |-> TRUE]
    ELSE IF ~IsNone(normalize_score(Val(match).groups[1], patterns[i].format_type))
    THEN [ret |-> Some(ParsedScore(Val(match).group0,
                                   Val(normalize_score(Val(match).groups[1],
                                                       patterns[i].format_type)),
                                   confidence, patterns[i].format_type, None)),
          raised |-> FALSE]
    ELSE PatternLoop(patterns, content, confidence, i + 1)

\* lines 127-138 and 142-153: the loop over `patterns` from i on
PatternLoop(patterns, content, confidence, i) ==
    IF i > Len(patterns) THEN [ret |-> None, raised |-> FALSE]
    ELSE PatternLoopAt(patterns, content, confidence, i, Search(patterns[i].pattern, content))

\* ScoreParser._parse_prog_report
parse_prog_report(content) == PatternLoop(prog_report_patterns, content, 80, 1)

\* ScoreParser._parse_universal
parse_universal(content) == PatternLoop(universal_patterns, content, 60, 1)

\* `sub in text`
Contains(text, sub) ==
    \E i \in 1..(Len(text) - Len(sub) + 1) : SubSeq(text, i, i + Len(sub) - 1) = sub

\* faulty variant of OrUniversal: the universal patterns go first
UniversalFirst(result, content_lower) ==
    IF parse_universal(content_lower).raised \/ ~IsNone(parse_universal(content_lower).ret)
    THEN parse_universal(content_lower)
    ELSE result

\* lines 63-64 and 67-68: the result of the source's own patterns if there
\* is one, else the universal patterns
OrUniversal(result, content_lower) ==
    IF result.raised \/ ~IsNone(result.ret) THEN result ELSE parse_universal(content_lower)

\* lines 58-71 for the lower-cased content and source name
ParseLowered(content_lower, source_lower) ==
    IF Contains(source_lower, Chars("sonic perspectives"))
    THEN OrUniversal([ret |-> parse_sonic_perspectives(content_lower), raised |-> FALSE],
                     content_lower)
    ELSE IF Contains(source_lower, Chars("prog report"))
    THEN OrUniversal(parse_prog_report(content_lower), content_lower)
    ELSE parse_universal(content_lower)

\* ScoreParser.parse_score
parse_score(content, source_name) ==
    IF ~Truthy(content) THEN [ret |-> None, raised |-> FALSE]
    ELSE ParseLowered(Lower(content), Lower(source_name))

\* --------------------------------------------------------- parsing scores
\* review texts put together from phrases that one or several patterns fit,
\* every letter grade after every label, and the two known sources and
\* another one

MaxPhrases == 2

Phrases ==
    {Chars("4/5 stars"), Chars("15/10"), Chars("***"),
     Chars("score: 8.5 out of 10"), Chars("score: 12.5 out of 10"),
     Chars("songwriting: 8"), Chars("production: 15"), Chars("score: 7.5"),
     Chars("rating: good")}

RECURSIVE Texts(_)
\* the texts of at most n phrases with a blank between them
Texts(n) ==
    IF n = 0 THEN {<<>>}
    ELSE Texts(n - 1) \cup Phrases
         \cup {t \o <<" ">> \o p : t \in Texts(n - 1) \ {<<>>}, p \in Phrases}

GradeLabels == {"grade", "Rating", "score"}

\* a label, a colon, a blank and a grade of the table
LabelledGrade(label, grade) == Chars(label) \o Chars(": ") \o Chars(grade)

LabelledGrades ==
    {LabelledGrade(l, grade_map[i][1]) : l \in GradeLabels, i \in 1..Len(grade_map)}

SourceNames == {Chars("Sonic Perspectives"), Chars("The Prog Report"), Chars("Metal Hammer")}

ParserInputs == (Texts(MaxPhrases) \cup LabelledGrades) \X SourceNames

InitParser ==
    /\ artists = <<>>
    /\ albums = <<>>
    /\ items = <<>>
    /\ sources = <<>>
    /\ aggregates = <<>>
    /\ \E input \in ParserInputs : last = Done("content", input, None, FALSE, {}, FALSE)
    /\ made = {}

\* the call parse_score(content, source_name)
ParseScore ==
    /\ last.op = "content"
    /\ \E r \in {parse_score(last.arg[1], last.arg[2])} :
           last' = Done("parse_score", last.arg, r.ret, r.raised, {}, FALSE)
    /\ UNCHANGED <<artists, albums, items, sources, aggregates, made>>

NextParser == ParseScore

SpecParser == InitParser /\ [][NextParser]_vars

\* ------------------------------------------------------------ normalization
\* normalize_string on its own: the texts made of at most MaxTokens of the
\* tokens below

MaxTokens == 5

Tokens == {<<"t", "h", "e">>, <<" ">>, <<"a">>, <<"(">>, <<")">>, <<"[">>, <<"]">>}

RECURSIVE TokenTexts(_)
TokenTexts(n) ==
    IF n = 0 THEN {<<>>}
    ELSE TokenTexts(n - 1) \cup {t \o k : t \in TokenTexts(n - 1), k \in Tokens}

NormalizeInputs == TokenTexts(MaxTokens)

\* a caller holds a text it is about to normalize
InitNormalize ==
    /\ artists = <<>>
    /\ albums = <<>>
    /\ items = <<>>
    /\ sources = <<>>
    /\ aggregates = <<>>
    /\ \E text \in NormalizeInputs : last = Done("text", text, None, FALSE, {}, FALSE)
    /\ made = {}

\* self.normalize_string(text)
Normalize ==
    /\ last.op = "text"
    /\ last' = Done("normalize_string", last.arg, normalize_string(last.arg), FALSE, {}, FALSE)
    /\ UNCHANGED <<artists, albums, items, sources, aggregates, made>>

NextNormalize == Normalize

SpecNormalize == InitNormalize /\ [][NextNormalize]_vars

\* ================================================================ claims

AggregateOp == "aggregate_reviews_for_album"

\* the rows a finished aggregation returned
Returned_rows == {last.ret[i] : i \in 1..Len(last.ret)}

\* the album row with the given id, and whether there is one
AlbumExists(a) == \E i \in 1..Len(albums) : albums[i].id = a

AlbumOf(a) == albums[CHOOSE i \in 1..Len(albums) : albums[i].id = a]

ArtistExists(a) == \E i \in 1..Len(artists) : artists[i].id = a

\* ---------------------------------------------------------------------- C1
\* a call for the album of the call before it: same outcome, nothing written
C1_Rerun ==
    (last.op = AggregateOp /\ last.arg = last'.arg) =>
        /\ aggregates' = aggregates
        /\ Len(last'.ret) = Len(last.ret)
        /\ ~IsNone(last'.ret) =>
               /\ Val(last'.ret).id = Val(last.ret).id
               /\ \A f \in DerivedNames : Val(last'.ret)[f] = Val(last.ret)[f]

\* a call that returns an aggregate of an album that has a row already
C1_Update ==
    \A i \in 1..Len(aggregates) :
        (aggregates[i].album_id = last'.arg /\ ~IsNone(last'.ret)) =>
            /\ Val(last'.ret).id = aggregates[i].id
            /\ Len(aggregates') = Len(aggregates)
            /\ aggregates'[i] = Val(last'.ret)

\* C1: a call of aggregate_reviews_for_album(a) that follows directly on a
\* call for the same a returns what that call returned, the same row id and
\* the same value in every derived field, and leaves the aggregates as they
\* are; and whenever a row for a exists already, a call that returns an
\* aggregate returns that row's id and adds no row (so after a review was
\* added the existing row is updated).
C1_IdempotentUpsert ==
    [][last'.op = AggregateOp => (C1_Rerun /\ C1_Update)]_vars

\* an aggregation that updated the row of an album after a second review was
\* added to the one the row was made from
C1_Witness ==
    /\ last.op = AggregateOp
    /\ ~IsNone(last.ret)
    /\ ~last.created
    /\ Val(last.ret).review_count = 2
    /\ Len(aggregates) >= 1

\* ---------------------------------------------------------------------- C2
\* C2: in every state reached from the empty store by aggregate_reviews_for_
\* album and aggregate_all_reviews calls (with rows of the other tables added
\* in between), no two AlbumReviewAggregate rows have the same album id.
C2_OneAggregatePerAlbum ==
    \A i, j \in 1..Len(aggregates) :
        aggregates[i].album_id = aggregates[j].album_id => i = j

\* two albums have an aggregate, and the last call aggregated one of them
\* again
C2_Witness ==
    /\ Len(aggregates) >= 2
    /\ last.op = AggregateOp
    /\ ~IsNone(last.ret)
    /\ ~last.created

\* ---------------------------------------------------------------------- C3
\* the four cases of C3 for album id a, in the store before the call
C3_NullCase(a) ==
    \/ ~AlbumExists(a)
    \/ ~ArtistExists(AlbumOf(a).artist_id)
    \/ Len(MatchedReviews(Store, a)) = 0
    \/ \A i \in 1..Len(MatchedReviews(Store, a)) :
           IsNone(MatchedReviews(Store, a)[i].review_score)

\* C3: when the album does not exist, or its artist does not, or no review
\* resolves to it, or none of the reviews resolving to it has a score, then
\* aggregate_reviews_for_album returns null, and the aggregates are after
\* the call what they were before it.
C3_NullLeavesAggregates ==
    [][(last'.op = AggregateOp /\ C3_NullCase(last'.arg)) =>
           (IsNone(last'.ret) /\ ~last'.raised /\ aggregates' = aggregates)]_vars

\* a null result for an album that exists, whose artist exists and which has
\* reviews, none of them scored, while another album has an aggregate
C3_Witness ==
    /\ last.op = AggregateOp
    /\ IsNone(last.ret)
    /\ AlbumExists(last.arg)
    /\ ArtistExists(AlbumOf(last.arg).artist_id)
    /\ Len(MatchedReviews(Store, last.arg)) > 0
    /\ Len(aggregates) >= 1

\* ---------------------------------------------------------------------- C4
\* C4: aggregate_reviews_for_album never raises: every call ends with an
\* aggregate or with null, whatever the weights of the sources are.
C4_NeverRaises == last.op = AggregateOp => ~last.raised

\* ------------------------------------------------- the reviews of an album
\* the scored reviews resolving to the album of aggregate row g, and their
\* scores, in the store as it is after the call
ScoredOf(g) == ScoredReviews(MatchedReviews(Store, g.album_id))

ScoreList(g) == [i \in 1..Len(ScoredOf(g)) |-> Val(ScoredOf(g)[i].review_score)]

C8_Weight(r) ==
    IF \E i \in 1..Len(sources) : sources[i].id = r.source_id
    THEN sources[CHOOSE i \in 1..Len(sources) : sources[i].id = r.source_id].weight
    ELSE 10

\* score times weight, and weight, of each scored review of g
C8_Products(g) ==
    [i \in 1..Len(ScoredOf(g)) |-> ScoreList(g)[i] * C8_Weight(ScoredOf(g)[i])]

C8_Weights(g) == [i \in 1..Len(ScoredOf(g)) |-> C8_Weight(ScoredOf(g)[i])]

C5_Ranges ==
    [b \in {"0-3", "3-5", "5-7", "7-8", "8-9", "9-10"} |->
        CASE b = "0-3" -> 0..29
          [] b = "3-5" -> 30..49
          [] b = "5-7" -> 50..69
          [] b = "7-8" -> 70..79
          [] b = "8-9" -> 80..89
          [] b = "9-10" -> 90..100]

RECURSIVE C5_Total(_, _)
\* the sum of the counts of distribution dist over the ranges in names
C5_Total(dist, names) ==
    IF names = {} THEN 0
    ELSE LET b == CHOOSE x \in names : TRUE
         IN dist[b] + C5_Total(dist, names \ {b})

\* the relations of C5 between aggregate row g and the scores it was made of
C5_Row(g, scores) ==
    /\ DOMAIN g.score_distribution = DOMAIN C5_Ranges
    /\ \A b \in DOMAIN C5_Ranges :
           g.score_distribution[b] =
               Cardinality({i \in 1..Len(scores) : scores[i] \in C5_Ranges[b]})
    /\ C5_Total(g.score_distribution, DOMAIN C5_Ranges) = Len(scores)

\* C5: in every aggregate, score_distribution has exactly the six ranges
\* 0-3, 3-5, 5-7, 7-8, 8-9, 9-10; the count of a range is the number of
\* scored reviews whose score lies in it, with a score on a limit in the
\* higher range and 10 in the last; and the counts add up to the number of
\* scored reviews.
C5_ScoreDistribution ==
    \A g \in Returned_rows : C5_Row(g, ScoreList(g))

\* an aggregate of three reviews, one of them without a score, one with a
\* score on the limit 3.0 and one with the score 10
C5_Witness ==
    \E g \in Returned_rows :
        /\ g.review_count = 3
        /\ Len(ScoreList(g)) = 2
        /\ 30 \in SeqToSet(ScoreList(g))
        /\ 100 \in SeqToSet(ScoreList(g))

\* ---------------------------------------------------------------------- C7
\* n times the sum of squares minus the square of the sum: n (n - 1) times
\* the sample variance
C7_Spread(scores) ==
    Len(scores) * SumSquares(scores) - SumSeq(scores) * SumSeq(scores)

\* the square of the coefficient of variation stddev / mean as numerator
\* and denominator
C7_CvNum(scores) == Len(scores) * C7_Spread(scores)

C7_CvDen(scores) == (Len(scores) - 1) * SumSeq(scores) * SumSeq(scores)

\* k thousandths is max(0, 1 - cv) rounded to three decimals: they differ by
\* at most half a thousandth
C7_Rounded(k, scores) ==
    IF C7_CvNum(scores) >= C7_CvDen(scores)
    THEN k = 0
    ELSE /\ 2 * k <= 1999 =>
                FracLe((1999 - 2 * k) * (1999 - 2 * k), 4000000,
                       C7_CvNum(scores), C7_CvDen(scores))
         /\ FracLe(C7_CvNum(scores), C7_CvDen(scores),
                   (2001 - 2 * k) * (2001 - 2 * k), 4000000)

\* the relations of C7 between aggregate row g and the scores it was made of
C7_Row(g, scores) ==
    Len(scores) >= 2 =>
        /\ g.score_stddev[1] * Len(scores) * (Len(scores) - 1)
               = C7_Spread(scores) * g.score_stddev[2]
        /\ g.score_stddev[2] > 0
        /\ IF SumSeq(scores) = 0
           THEN g.consensus_strength = 1000
           ELSE C7_Rounded(g.consensus_strength, scores)
        /\ IF FracLe(10000, 1, g.score_stddev[1], g.score_stddev[2])
           THEN g.controversy_score = <<1, 1>>
           ELSE /\ g.controversy_score[1] * 10000 * g.score_stddev[2]
                       = g.score_stddev[1] * g.controversy_score[2]
                /\ g.controversy_score[2] > 0
        /\ g.consensus_strength \in 0..1000
        /\ g.controversy_score[1] >= 0
        /\ g.controversy_score[1] <= g.controversy_score[2]

\* C7: for two or more scores in [0,10], consensus_strength is
\* max(0, 1 - stddev/mean) rounded to three decimals, with the sample
\* standard deviation, and 1.0 when the mean is 0; controversy_score is
\* min(stddev/10, 1); and both lie in [0,1].  (score_stddev and
\* controversy_score are held as their squares, consensus_strength in
\* thousandths.)
C7_ConsensusAndControversy ==
    \A g \in Returned_rows : C7_Row(g, ScoreList(g))

\* an aggregate of the scores 8.0 and 9.0: the consensus strength is 0.917
\* and the controversy score 0.0707, which is not 1 - 0.917
C7_Witness ==
    \E g \in Returned_rows :
        /\ Len(ScoreList(g)) = 2
        /\ SeqToSet(ScoreList(g)) = {80, 90}
        /\ g.consensus_strength = 917
        /\ g.controversy_score = <<1, 200>>
        /\ g.controversy_score[1] * 1000000
               # (1000 - g.consensus_strength) * (1000 - g.consensus_strength)
                     * g.controversy_score[2]

\* ---------------------------------------------------------------------- C9
\* all the reviews resolving to the album of aggregate row g
C9_Reviews(g) == MatchedReviews(Store, g.album_id)

C9_Dates(g) == {C9_Reviews(g)[i].published_date : i \in 1..Len(C9_Reviews(g))}

\* C9: in every aggregate, first_review_date and latest_review_date are the
\* earliest and the latest publication timestamp among all the reviews
\* resolving to the album, scored or not; days_since_release is the day of
\* first_review_date minus the album's release_date, and null exactly when
\* the album has no release_date.
C9_Dates_And_Release ==
    \A g \in Returned_rows :
        /\ ~IsNone(g.first_review_date)
        /\ Val(g.first_review_date) \in C9_Dates(g)
        /\ \A d \in C9_Dates(g) :
               \/ Val(g.first_review_date).day < d.day
               \/ /\ Val(g.first_review_date).day = d.day
                  /\ Val(g.first_review_date).tick <= d.tick
        /\ ~IsNone(g.latest_review_date)
        /\ Val(g.latest_review_date) \in C9_Dates(g)
        /\ \A d \in C9_Dates(g) :
               \/ d.day < Val(g.latest_review_date).day
               \/ /\ d.day = Val(g.latest_review_date).day
                  /\ d.tick <= Val(g.latest_review_date).tick
        /\ IsNone(g.days_since_release) <=> IsNone(AlbumOf(g.album_id).release_date)
        /\ ~IsNone(AlbumOf(g.album_id).release_date) =>
               Val(g.days_since_release) =
                   Val(g.first_review_date).day - Val(AlbumOf(g.album_id).release_date)

\* an aggregate of an album released on 2020-01-01 whose only scored review
\* is from that day and which has an unscored review from the day before:
\* the first review came a day before the release
C9_Witness ==
    \E g \in Returned_rows :
        /\ g.review_count = 2
        /\ Len(ScoredOf(g)) = 1
        /\ ScoredOf(g)[1].published_date = Date2
        /\ g.first_review_date = Some(Date1)
        /\ g.days_since_release = Some(-1)

\* --------------------------------------------------------------------- C10
\* the review items that mention an artist and an album
C10_Mentioning ==
    {i \in 1..Len(items) :
        /\ items[i].content_type = "review"
        /\ Len(items[i].artists) > 0
        /\ Len(items[i].album) > 0}

\* C10: aggregate_all_reviews ends without an exception; it resolves every
\* review item that mentions an artist and an album, creating the artist and
\* the album where needed, so that each of them resolves after the pass, and
\* touches no album when no item has both mentions; and it returns one
\* aggregate for each touched album for which aggregate_reviews_for_album
\* gives an aggregate, and no two entries for the same album.
C10_AggregateAll ==
    last.op = "aggregate_all_reviews" =>
        /\ ~last.raised
        /\ \A i \in C10_Mentioning :
               ~IsNone(match_music_item_to_album(Store, items[i], FALSE).ret)
        /\ \A a \in last.matched : AlbumExists(a)
        /\ (last.matched = {}) <=> (C10_Mentioning = {})
        /\ \A i, j \in 1..Len(last.ret) :
               last.ret[i].album_id = last.ret[j].album_id => i = j
        /\ {last.ret[i].album_id : i \in 1..Len(last.ret)} =
               {a \in last.matched :
                   ~IsNone(aggregate_reviews_for_album(Store, a).ret)}

\* --------------------------------------------------------------------- C11
\* the stored aggregates that are not in the list ret
LeftOut(ret) ==
    {aggregates[i] : i \in 1..Len(aggregates)} \ {ret[i] : i \in 1..Len(ret)}

\* fraction x is at most fraction y
C11_AtMost(x, y) == x[1] * y[2] <= y[1] * x[2]

\* ret is a ranking by the field `key` of the aggregates with at least
\* min_reviews reviews, cut off after `limit` entries
C11_Ranking(ret, limit, min_reviews, key) ==
    /\ Len(ret) <= limit
    /\ \A i \in 1..Len(ret) :
           /\ \E j \in 1..Len(aggregates) : aggregates[j] = ret[i]
           /\ ret[i].review_count >= min_reviews
    /\ \A i, j \in 1..Len(ret) : ret[i].id = ret[j].id => i = j
    /\ \A i \in 1..(Len(ret) - 1) : C11_AtMost(ret[i + 1][key], ret[i][key])
    /\ \A g \in LeftOut(ret) :
           g.review_count >= min_reviews =>
               /\ Len(ret) = limit
               /\ \A i \in 1..Len(ret) : C11_AtMost(g[key], ret[i][key])

\* C11: get_top_rated_albums(limit, min_reviews) returns at most limit
\* aggregates, each with review_count >= min_reviews, with weighted_average
\* never rising along the list, and an aggregate that passes the filter is
\* left out only when the list is full and nothing in it has a smaller
\* weighted_average; get_controversial_albums does the same with
\* controversy_score.
C11_Rankings ==
    /\ last.op = "get_top_rated_albums" =>
           C11_Ranking(last.ret, last.arg[1], last.arg[2], "weighted_average")
    /\ last.op = "get_controversial_albums" =>
           C11_Ranking(last.ret, last.arg[1], last.arg[2], "controversy_score")

\* a ranking cut off after one entry: of two aggregates that pass the filter,
\* the one with the smaller weighted average is left out
C11_Witness ==
    /\ last.op = "get_top_rated_albums"
    /\ last.arg = <<1, 1>>
    /\ Len(last.ret) = 1
    /\ \E g \in LeftOut(last.ret) :
           /\ g.review_count >= 1
           /\ g.weighted_average # last.ret[1].weighted_average

C13_Idempotent ==
    last.op = "normalize_string" => normalize_string(last.ret) = last.ret

\* --------------------------------------------------------------------- C14
\* the text is P, a blank, and one span from `open` to `close` at its end,
\* with no other bracket in it; the result is the text P in front of the span
SpanAtEnd(text, open, close) ==
    {SubSeq(text, 1, i - 1) : i \in {j \in 1..(Len(text) - 2) :
        /\ text[j] = " "
        /\ text[j + 1] = open
        /\ text[Len(text)] = close
        /\ \A k \in (1..Len(text)) \ {j + 1, Len(text)} :
               text[k] \notin {"(", ")", "[", "]"}}}

\* C14: normalize_string removes a parenthesized or bracketed span with all
\* its contents: "P (Q)" and "P [Q]" normalize to what "P" normalizes to.
C14_SpansRemoved ==
    last.op = "normalize_string" =>
        \A P \in SpanAtEnd(last.arg, "(", ")") \cup SpanAtEnd(last.arg, "[", "]") :
            last.ret = normalize_string(P)

\* --------------------------------------------------------------------- C15
\* C15: match_artist returns null and creates no Artist when the normalized
\* form of the name is empty, whatever create_if_missing is; a name of
\* punctuation only is such a name.
C15_EmptyNormalizedName ==
    (last.op = "match_artist" /\ normalize_string(last.arg[1]) = <<>>) =>
        /\ IsNone(last.ret)
        /\ ~last.created

\* --------------------------------------------------------------------- C16
\* the Artist rows a match_artist call found in the table
ArtistsBefore == IF last.created THEN SubSeq(artists, 1, Len(artists) - 1) ELSE artists

\* the positions in `rows` of the artists named exactly normalized_name
C16_Exact(rows, normalized_name) ==
    {i \in 1..Len(rows) : rows[i].normalized_name = normalized_name}

\* the position i holds the first of the artists most similar to
\* normalized_name, and that similarity is at least 0.85
C16_FirstOfBest(rows, normalized_name, i) ==
    /\ 100 * similarity_score(normalized_name, rows[i].normalized_name)[1]
           >= 85 * similarity_score(normalized_name, rows[i].normalized_name)[2]
    /\ \A j \in 1..Len(rows) :
           /\ ~FracLt(similarity_score(normalized_name, rows[i].normalized_name),
                      similarity_score(normalized_name, rows[j].normalized_name))
           /\ j < i => FracLt(similarity_score(normalized_name, rows[j].normalized_name),
                              similarity_score(normalized_name, rows[i].normalized_name))

C16_Call(rows, normalized_name) ==
    /\ C16_Exact(rows, normalized_name) # {} =>
           \E i \in C16_Exact(rows, normalized_name) : last.ret = Some(rows[i])
    /\ C16_Exact(rows, normalized_name) = {} =>
           \A i \in 1..Len(rows) :
               C16_FirstOfBest(rows, normalized_name, i) => last.ret = Some(rows[i])

\* C16: match_artist returns an Artist whose normalized name equals the
\* normalized input when there is one, whatever the similarities are; when
\* there is none it returns the Artist most similar to the normalized input
\* if that similarity is at least 0.85, and of several most similar Artists
\* the first in the order of the table.
C16_ExactThenFirstBest ==
    (last.op = "match_artist" /\ Truthy(last.arg[1])) =>
        C16_Call(ArtistsBefore, normalize_string(last.arg[1]))

\* a call that found two equally similar artists, none of the same normalized
\* name, and returned the first
C16_Witness ==
    /\ last.op = "match_artist"
    /\ C16_Exact(ArtistsBefore, normalize_string(last.arg[1])) = {}
    /\ \E i, j \in 1..Len(ArtistsBefore) :
           /\ i < j
           /\ C16_FirstOfBest(ArtistsBefore, normalize_string(last.arg[1]), i)
           /\ similarity_score(normalize_string(last.arg[1]), ArtistsBefore[i].normalized_name)
                  = similarity_score(normalize_string(last.arg[1]), ArtistsBefore[j].normalized_name)
           /\ last.ret = Some(ArtistsBefore[i])

\* --------------------------------------------------------------------- C17
\* the Album rows a match_album call found in the table
AlbumsBefore == IF last.created THEN SubSeq(albums, 1, Len(albums) - 1) ELSE albums

\* the ids of the Artist that artist_name resolves to: the first of its exact
\* matches, or else the first of its most similar artists at 0.85 or above.
\* An Artist the call created is the exact match of its name, and no other
\* row is added, so this is also the Artist the call resolved.
ResolvedIds(normalized_name) ==
    IF C16_Exact(artists, normalized_name) # {}
    THEN {artists[Min(C16_Exact(artists, normalized_name))].id}
    ELSE {artists[i].id : i \in {j \in 1..Len(artists) :
                                    C16_FirstOfBest(artists, normalized_name, j)}}

\* the title similarity sim of a candidate, with 0.1 added for an equal year
C18_Score(sim, album_year, release_year) ==
    IF ~IsNone(release_year) /\ album_year = release_year
    THEN <<10 * sim[1] + sim[2], 10 * sim[2]>>
    ELSE sim

\* the score of the album `a` for a call with this title and year reaches 0.85,
\* or the title is the same after normalization
C18_Accepted(a, normalized_title, release_year) ==
    \/ a.normalized_title = normalized_title
    \/ FracGe(C18_Score(similarity_score(normalized_title, a.normalized_title),
                        a.release_year, release_year),
              <<85, 100>>)

C17_Call(owners, normalized_title, create_if_missing, release_year) ==
    /\ ~IsNone(last.ret) => Val(last.ret).artist_id \in owners
    /\ (/\ owners # {}
        /\ \A i \in 1..Len(AlbumsBefore) :
               AlbumsBefore[i].artist_id \in owners =>
                   ~C18_Accepted(AlbumsBefore[i], normalized_title, release_year))
       => IF create_if_missing
          THEN /\ last.created
               /\ last.ret = Some(albums[Len(albums)])
               /\ Val(last.ret).normalized_title = normalized_title
          ELSE IsNone(last.ret)

\* C17: an Album that match_album returns or creates belongs to the Artist
\* its artist_name resolves to; when only Albums of other Artists have an
\* equal or similar title, the call creates an Album of the resolved Artist
\* (create_if_missing) or returns null.
C17_ScopedToArtist ==
    (last.op = "match_album" /\ Truthy(last.arg[1]) /\ Truthy(last.arg[2])) =>
        C17_Call(ResolvedIds(normalize_string(last.arg[2])),
                 normalize_string(last.arg[1]), last.arg[3], last.arg[4])

\* a call that created an Album although an Album of the same normalized
\* title existed, that one belonging to another Artist
C17_Witness ==
    /\ last.op = "match_album"
    /\ last.created
    /\ \E i \in 1..Len(AlbumsBefore) :
           /\ AlbumsBefore[i].normalized_title = Val(last.ret).normalized_title
           /\ AlbumsBefore[i].artist_id # Val(last.ret).artist_id

\* --------------------------------------------------------------------- C18
\* the albums of the owners among rows
C18_Own(rows, owners) == SelectSeq(rows, LAMBDA a : a.artist_id \in owners)

\* the fuzzy step over the candidates `own` (no title of theirs is equal)
C18_Fuzzy(own, normalized_title, release_year) ==
    IF \E i \in 1..Len(own) : C18_Accepted(own[i], normalized_title, release_year)
    THEN \E i \in 1..Len(own) :
            /\ last.ret = Some(own[i])
            /\ C18_Accepted(own[i], normalized_title, release_year)
            /\ \A j \in 1..Len(own) :
                   ~FracLt(C18_Score(similarity_score(normalized_title, own[i].normalized_title),
                                     own[i].release_year, release_year),
                           C18_Score(similarity_score(normalized_title, own[j].normalized_title),
                                     own[j].release_year, release_year))
    ELSE last.created \/ IsNone(last.ret)

\* C18: when no Album of the resolved Artist has the normalized title, the
\* score of each of its Albums is the title similarity, plus 0.10 when a
\* release year is supplied and is the Album's; the call returns an Album of
\* greatest score if that score is at least 0.85 and none of them otherwise,
\* so an Album at similarity 0.75 is returned with its year and not without.
C18_YearBonus ==
    (/\ last.op = "match_album" /\ Truthy(last.arg[1]) /\ Truthy(last.arg[2])
     /\ \A i \in 1..Len(AlbumsBefore) :
            AlbumsBefore[i].artist_id \in ResolvedIds(normalize_string(last.arg[2]))
                => AlbumsBefore[i].normalized_title # normalize_string(last.arg[1]))
    => C18_Fuzzy(C18_Own(AlbumsBefore, ResolvedIds(normalize_string(last.arg[2]))),
                 normalize_string(last.arg[1]), last.arg[4])

\* a call that returned an Album whose title is similar at 0.75 only, its
\* year being the one supplied
C18_Witness ==
    /\ last.op = "match_album"
    /\ ~last.created
    /\ ~IsNone(last.ret)
    /\ 4 * similarity_score(normalize_string(last.arg[1]), Val(last.ret).normalized_title)[1]
           = 3 * similarity_score(normalize_string(last.arg[1]), Val(last.ret).normalized_title)[2]
    /\ Val(last.ret).release_year = last.arg[4]

\* --------------------------------------------------------------------- C19
\* the calls c and d are the same call: the same operation with the same
\* artist name and, for match_album, the same title
C19_SameCall(c, d) ==
    /\ c.op = d.op
    /\ c.arg[1] = d.arg[1]
    /\ c.op = "match_album" => c.arg[2] = d.arg[2]

\* C19: a call of match_artist or match_album that repeats a call which
\* created an Artist or Album (the same name and title, any create_if_missing
\* and release_year) returns the row that call created, and no call creates
\* a second row for it.
C19_CreatedOnce ==
    /\ \A c, d \in made : C19_SameCall(c, d) => c.id = d.id
    /\ last.op \in {"match_artist", "match_album"} =>
           \A c \in made :
               C19_SameCall(c, last) => (~IsNone(last.ret) /\ Val(last.ret).id = c.id)

\* --------------------------------------------------------------------- C20
\* no Artist has the normalized name or is similar to it at 0.85 or above
C20_NoArtist(normalized_name) ==
    \A i \in 1..Len(artists) :
        /\ artists[i].normalized_name # normalized_name
        /\ 100 * similarity_score(normalized_name, artists[i].normalized_name)[1]
               < 85 * similarity_score(normalized_name, artists[i].normalized_name)[2]

\* no Album of the resolved Artist has the normalized title or a score of
\* 0.85 or above
C20_NoAlbum(normalized_name, normalized_title, release_year) ==
    \A i \in 1..Len(albums) :
        albums[i].artist_id \in ResolvedIds(normalized_name) =>
            ~C18_Accepted(albums[i], normalized_title, release_year)

\* the call had nothing to match (artist_name, album_title, release_year are
\* what it passed on to match_artist and match_album)
C20_Nothing(op, artist_name, album_title, release_year) ==
    \/ C20_NoArtist(normalize_string(artist_name))
    \/ /\ op # "match_artist"
       /\ C20_NoAlbum(normalize_string(artist_name), normalize_string(album_title),
                      release_year)

\* a call with create_if_missing = False leaves artists and albums as they
\* are and returns null when it has nothing to match
C20_Lookup(op, artist_name, album_title, release_year) ==
    /\ artists' = artists
    /\ albums' = albums
    /\ C20_Nothing(op, artist_name, album_title, release_year) => IsNone(last'.ret)

\* the item of the given id
C20_Item(id) == items[CHOOSE i \in 1..Len(items) : items[i].id = id]

C20_Step ==
    /\ (last'.op = "match_artist" /\ ~last'.arg[2]) =>
           C20_Lookup("match_artist", last'.arg[1], <<>>, None)
    /\ (last'.op = "match_album" /\ ~last'.arg[3]) =>
           C20_Lookup("match_album", last'.arg[2], last'.arg[1], last'.arg[4])
    /\ (last'.op = "match_music_item_to_album" /\ ~last'.arg[2]
            /\ Len(C20_Item(last'.arg[1]).artists) > 0) =>
           C20_Lookup("match_music_item_to_album",
                      C20_Item(last'.arg[1]).artists[1],
                      C20_Item(last'.arg[1]).album,
                      Some(C20_Item(last'.arg[1]).published_date.year))
    /\ (last'.op = "match_music_item_to_album" /\ ~last'.arg[2]
            /\ Len(C20_Item(last'.arg[1]).artists) = 0) =>
           (artists' = artists /\ albums' = albums /\ IsNone(last'.ret))
    /\ last'.op = "aggregate_reviews_for_album" =>
           (artists' = artists /\ albums' = albums /\ items' = items)

\* C20: a call of match_artist, match_album or match_music_item_to_album
\* with create_if_missing = False changes neither the Artists nor the Albums
\* and returns null when nothing matches exactly or at 0.85 or above; a call
\* of aggregate_reviews_for_album changes no Artist, Album or review item.
C20_LookupOnly == [][C20_Step]_vars

\* a call of match_album with create_if_missing = False that returned null,
\* the Artist being known and owning no such Album
C20_Witness ==
    /\ last.op = "match_album"
    /\ ~last.arg[3]
    /\ IsNone(last.ret)
    /\ ResolvedIds(normalize_string(last.arg[2])) # {}

\* --------------------------------------------------------------------- C21
\* the item lacks an artist list, a first artist mention or an album mention
C21_Incomplete(item) ==
    \/ Len(item.artists) = 0
    \/ Len(item.artists[1]) = 0
    \/ Len(item.album) = 0

\* the call for `item` ended as match_album ends for its first artist
\* mention, its album mention and its publication year
C21_Delegated(item, create_if_missing, r) ==
    /\ last'.ret = r.ret
    /\ artists' = r.st.artists
    /\ albums' = r.st.albums
    /\ Len(albums') > Len(albums) =>
           Val(last'.ret).release_year = Some(item.published_date.year)

C21_Call(item, create_if_missing) ==
    IF C21_Incomplete(item)
    THEN /\ IsNone(last'.ret)
         /\ artists' = artists
         /\ albums' = albums
    ELSE C21_Delegated(item, create_if_missing,
                       match_album(Store, item.album, item.artists[1], create_if_missing,
                                   Some(item.published_date.year)))

\* C21: match_music_item_to_album returns null and changes nothing for an
\* item without artists, with an empty first artist mention or without an
\* album mention; for any other item it does what match_album does for the
\* first artist mention, the album mention and the publication year, so an
\* Album it creates has the publication year as release_year.
C21_ItemDelegation ==
    [][last'.op = "match_music_item_to_album" =>
          C21_Call(C20_Item(last'.arg[1]), last'.arg[2])]_vars

\* a call that created an Album with the year of the item's publication
C21_Witness ==
    /\ last.op = "match_music_item_to_album"
    /\ last.created
    /\ Val(last.ret).release_year = Some(C20_Item(last.arg[1]).published_date.year)

\* --------------------------------------------------------------------- C27
\* the aggregate row g holds what the reviews resolving to its album give:
\* their ids, their number, and as many counted scores as they have
C27_Reflects(g, reviews) ==
    /\ g.review_item_ids = [i \in 1..Len(reviews) |-> reviews[i].id]
    /\ g.review_count = Len(reviews)
    /\ C5_Total(g.score_distribution, DOMAIN C5_Ranges)
           = Cardinality({i \in 1..Len(reviews) : ~IsNone(reviews[i].review_score)})

\* C27: after a call of aggregate_reviews_for_album(a), whatever it returned,
\* a stored aggregate of album a is made from the reviews that resolve to a
\* now; an aggregate of an earlier call does not stay as it was once no
\* review, or no scored review, resolves to a.
C27_NoStaleAggregate ==
    (last.op = AggregateOp /\ ~last.raised) =>
        \A i \in 1..Len(aggregates) :
            aggregates[i].album_id = last.arg =>
                C27_Reflects(aggregates[i], MatchedReviews(Store, last.arg))

\* --------------------------------------------------------------------- C28
\* the scored review items that mention a first artist and an album
C28_Countable ==
    {i \in 1..Len(items) :
        /\ items[i].content_type = "review"
        /\ Len(items[i].artists) > 0
        /\ Len(items[i].artists[1]) > 0
        /\ Len(items[i].album) > 0
        /\ ~IsNone(items[i].review_score)}

\* the positions in the list rows of the aggregates that count review id
C28_CountedIn(rows, id) ==
    {k \in 1..Len(rows) :
        \E j \in 1..Len(rows[k].review_item_ids) : rows[k].review_item_ids[j] = id}

\* C28: a run of aggregate_all_reviews on a store without aggregates returns,
\* for every scored review item that mentions a first artist and an album,
\* exactly one aggregate with the id of the item among its review_item_ids.
C28_CountedOnce ==
    [][(/\ Len(aggregates) = 0
        /\ last'.op = "aggregate_all_reviews"
        /\ ~last'.raised)
       => \A i \in C28_Countable :
              Cardinality(C28_CountedIn(last'.ret, items[i].id)) = 1]_vars

\* --------------------------------------------------------------------- C29
\* the similarity below which match_artist takes two names for different
\* artists, as the documentation gives it
C29_Strong == <<85, 100>>

\* C29: from a store without artists and albums, after any calls of
\* match_artist, match_album and match_music_item_to_album, no two Artists
\* have the same normalized_name, no two Albums of one Artist have the same
\* normalized_title, and every Artist is less than 0.85 similar to each
\* Artist that was there when it was created.
C29_EntitiesDistinct ==
    /\ \A i, j \in 1..Len(artists) :
           i < j =>
               /\ artists[i].normalized_name # artists[j].normalized_name
               /\ FracLt(similarity_score(artists[j].normalized_name,
                                          artists[i].normalized_name),
                         C29_Strong)
    /\ \A i, j \in 1..Len(albums) :
           (i < j /\ albums[i].artist_id = albums[j].artist_id) =>
               albums[i].normalized_title # albums[j].normalized_title

\* two artists, and two albums of one of them, the later made for a review
C29_Witness ==
    /\ Len(artists) = 2
    /\ Len(albums) = 2
    /\ albums[1].artist_id = albums[2].artist_id
    /\ last.op = "match_music_item_to_album"
    /\ last.created

\* --------------------------------------------------------------------- C30
\* aggregate row g counts all the reviews `reviews` and takes its statistics
\* from `scores`, the scores of those that have one (no Source row is stored,
\* so that every review weighs the same)
C30_Row(g, reviews, scores) ==
    /\ g.review_count = Len(reviews)
    /\ g.review_item_ids = [i \in 1..Len(reviews) |-> reviews[i].id]
    /\ {g.source_ids[i] : i \in 1..Len(g.source_ids)}
           = {reviews[i].source_id : i \in 1..Len(reviews)}
    /\ g.average_score[1] * Len(scores) = SumSeq(scores) * g.average_score[2]
    /\ g.weighted_average[1] * Len(scores) = SumSeq(scores) * g.weighted_average[2]
    /\ g.median_score = Median(scores)
    /\ g.score_stddev = StdevSquared(scores)
    /\ C5_Total(g.score_distribution, DOMAIN C5_Ranges) = Len(scores)
    /\ g.review_count >= C5_Total(g.score_distribution, DOMAIN C5_Ranges)
    /\ (g.review_count = C5_Total(g.score_distribution, DOMAIN C5_Ranges))
           <=> (\A i \in 1..Len(reviews) : ~IsNone(reviews[i].review_score))

\* the ranking `ret` of at most `limit` aggregates has only aggregates of at
\* least min_reviews reviews and, if it is not full, all of them
C30_Filtered(ret, limit, min_reviews) ==
    /\ \A i \in 1..Len(ret) : ret[i].review_count >= min_reviews
    /\ Len(ret) < limit =>
           \A i \in 1..Len(aggregates) :
               aggregates[i].review_count >= min_reviews =>
                   \E j \in 1..Len(ret) : ret[j] = aggregates[i]

\* C30: review_count, source_ids and review_item_ids of an aggregate are taken
\* from all the reviews that resolve to the album, scored or not; average,
\* median, standard deviation, weighted average and score_distribution from
\* the scored ones; so review_count is at least the sum of the distribution
\* counts and equal to it exactly when every review is scored, and the
\* min_reviews filter of get_top_rated_albums and get_controversial_albums
\* goes by review_count, unscored reviews included.
C30_AllAndScored ==
    /\ (last.op \in {AggregateOp, "aggregate_all_reviews"} /\ ~last.raised) =>
           \A g \in Returned_rows :
               C30_Row(g, MatchedReviews(Store, g.album_id), ScoreList(g))
    /\ last.op \in {"get_top_rated_albums", "get_controversial_albums"} =>
           C30_Filtered(last.ret, last.arg[1], last.arg[2])

\* a ranking for min_reviews 2 returned an aggregate of one scored and one
\* unscored review
C30_Witness ==
    /\ last.op \in {"get_top_rated_albums", "get_controversial_albums"}
    /\ last.arg[2] = 2
    /\ \E i \in 1..Len(last.ret) :
           /\ last.ret[i].review_count = 2
           /\ C5_Total(last.ret[i].score_distribution, DOMAIN C5_Ranges) = 1

\* --------------------------------------------------------------------- C22
\* parse_score returned a ParsedScore
C22_Parsed == last.op = "parse_score" /\ ~last.raised /\ ~IsNone(last.ret)

\* C22: every ParsedScore that parse_score returns has a normalized_score
\* from 0 to 10 and a confidence from 0 to 1; a number outside the range of
\* its format, such as 15/10 or a sub-category above 10, is not returned.
C22_WithinScale ==
    C22_Parsed =>
        /\ InRange(Val(last.ret).normalized_score, 0, 10)
        /\ Val(last.ret).confidence \in 0..100

\* --------------------------------------------------------------------- C23
\* C23: for a text made of the label grade:, rating: or score: and a letter
\* grade of the table, parse_score returns the value the table gives for the
\* grade with its + or -; so "Rating: B+" gives 8.0.
C23_GradeValue ==
    last.op = "parse_score" =>
        \A l \in GradeLabels, i \in 1..Len(grade_map) :
            last.arg[1] = LabelledGrade(l, grade_map[i][1]) =>
                /\ ~last.raised
                /\ ~IsNone(last.ret)
                /\ Val(last.ret).format_type = "letter"
                /\ Val(last.ret).normalized_score = grade_map[i][2]

\* --------------------------------------------------------------------- C24
\* the digits of text s from position i on
C24_DigitsFrom(s, i) ==
    SubSeq(s, i, Max({j \in i..Len(s) : \A k \in i..j : s[k] \in DigitChars}))

\* the fraction score of the matched text raw_score "X/Y...", with its
\* slash at position p: (X/Y)*10 capped at 10
C24_Normalized(raw_score, p) ==
    IF ToInt(SubSeq(raw_score, 1, p - 1)) >= ToInt(C24_DigitsFrom(raw_score, p + 1))
    THEN <<10, 1>>
    ELSE Frac(10 * ToInt(SubSeq(raw_score, 1, p - 1)),
              ToInt(C24_DigitsFrom(raw_score, p + 1)))

\* C24: a fraction X/Y with Y 5 or 10 that parse_score extracts, with a
\* pattern of the source or a universal one, is returned as (X/Y)*10 capped
\* at 10; so a match of "4/5" or of "4/5 stars" gives 8.0.
C24_FractionOfTen ==
    (C22_Parsed /\ Val(last.ret).format_type = "fraction") =>
        Val(last.ret).normalized_score
            = C24_Normalized(Val(last.ret).raw_score,
                             Min(PositionsOf(Val(last.ret).raw_score, "/")))

\* --------------------------------------------------------------------- C25
\* C25: parse_score never raises; a capture that cannot be converted gives
\* no score for its pattern and the next pattern is tried, and a text with
\* star glyphs gives (count/5)*10.
C25_NeverRaises == last.op = "parse_score" => ~last.raised

\* --------------------------------------------------------------------- C26
\* the lower-cased text of the call, and which source it names
C26_Content == Lower(last.arg[1])

C26_Sonic == Contains(Lower(last.arg[2]), Chars("sonic perspectives"))

C26_Prog == ~C26_Sonic /\ Contains(Lower(last.arg[2]), Chars("prog report"))

\* the capture of pattern r in the text
C26_Capture(r) == Val(Search(r, C26_Content)).groups[1]

\* stage 1: the patterns of the source that fit with a score they accept
C26_OverallFits ==
    {i \in 1..Len(sonic_overall_patterns) :
        /\ ~IsNone(Search(sonic_overall_patterns[i].pattern, C26_Content))
        /\ InRange(Val(Float(C26_Capture(sonic_overall_patterns[i].pattern))), 0, 10)}

C26_ProgFits ==
    {i \in 1..Len(prog_report_patterns) :
        /\ ~IsNone(Search(prog_report_patterns[i].pattern, C26_Content))
        /\ ~IsNone(normalize_score(C26_Capture(prog_report_patterns[i].pattern),
                                   prog_report_patterns[i].format_type))}

C26_Stage1 ==
    IF C26_Sonic THEN C26_OverallFits ELSE IF C26_Prog THEN C26_ProgFits ELSE {}

\* stage 2: the sub-categories found in the text
C26_Categories ==
    {i \in 1..Len(sonic_category_patterns) :
        ~IsNone(Search(sonic_category_patterns[i].pattern, C26_Content))}

RECURSIVE C26_Sum(_)
C26_Sum(found) ==
    IF found = {} THEN 0
    ELSE ToInt(C26_Capture(sonic_category_patterns[Min(found)].pattern))
         + C26_Sum(found \ {Min(found)})

\* the result is that of the first pattern of `fits`, and no pattern that
\* fits has a greater confidence
C26_FromStage1(p, fits) ==
    /\ p.confidence = (IF C26_Sonic THEN sonic_overall_patterns[Min(fits)].confidence ELSE 80)
    /\ C26_Sonic => \A i \in fits : sonic_overall_patterns[i].confidence <= p.confidence
    /\ p.format_type # "subcategory"
    /\ p.raw_score = Val(Search((IF C26_Sonic THEN sonic_overall_patterns
                                 ELSE prog_report_patterns)[Min(fits)].pattern,
                                C26_Content)).group0

\* the result is the mean of the sub-categories `found`
C26_FromStage2(p, found) ==
    /\ p.confidence = 80
    /\ p.format_type = "subcategory"
    /\ p.normalized_score[1] * Cardinality(found) = C26_Sum(found) * p.normalized_score[2]

\* the four stages, stage 2 being there for the sources `averaging`
C26_Stages(averaging) ==
    IF ~Truthy(last.arg[1]) THEN ~last.raised /\ IsNone(last.ret)
    ELSE IF C26_Stage1 # {}
    THEN ~last.raised /\ ~IsNone(last.ret) /\ C26_FromStage1(Val(last.ret), C26_Stage1)
    ELSE IF averaging /\ Cardinality(C26_Categories) >= 2
    THEN ~last.raised /\ ~IsNone(last.ret) /\ C26_FromStage2(Val(last.ret), C26_Categories)
    ELSE /\ last.raised = parse_universal(C26_Content).raised
         /\ last.ret = parse_universal(C26_Content).ret
         /\ ~IsNone(last.ret) => Val(last.ret).confidence = 60
         /\ (\A i \in 1..Len(universal_patterns) :
                IsNone(Search(universal_patterns[i].pattern, C26_Content)))
                => (~last.raised /\ IsNone(last.ret))

\* C26: parse_score goes through its stages in a fixed order and stops at
\* the first that gives a score: (1) the patterns of a known source, the
\* more confident first; (2) if stage 1 gave nothing, the mean of the
\* sub-categories when at least two of them are found, with confidence 0.8;
\* (3) if stages 1 and 2 gave nothing or the source is unknown, the
\* universal patterns with confidence 0.6; (4) null when nothing matched or
\* the text is empty.
C26_StagesInOrder == last.op = "parse_score" => C26_Stages(C26_Sonic \/ C26_Prog)

\* C26 as it holds: stage 2 is there for Sonic Perspectives only, the one
\* source whose patterns name sub-categories.
C26_StagesOfSource == last.op = "parse_score" => C26_Stages(C26_Sonic)

\* for Sonic Perspectives no overall score was accepted and the mean of two
\* sub-categories was returned
C26_Witness ==
    /\ last.op = "parse_score"
    /\ C26_Sonic
    /\ C26_Stage1 = {}
    /\ Cardinality(C26_Categories) = 2
    /\ ~IsNone(last.ret)
    /\ Val(last.ret).format_type = "subcategory"

====
